---- MODULE Spec2Model ----
(***************************************************************************)
(* The Intcode interpreter of intcode_computer/src/lib.rs (struct Computer *)
(* and its operations) together with the caller statements that drive it   *)
(* in the daily programs (days 02, 05, 07, 09).                            *)
(*                                                                         *)
(* compute() is modelled at the granularity of one iteration of its while  *)
(* loop: ComputeCall is the entry of compute() (the first fetch), Step is  *)
(* one whole iteration (apply, next, fetch of the following operation).    *)
(***************************************************************************)
EXTENDS Integers, Sequences, FiniteSets, TLC

----------------------------------------------------------------------------
(* isize.  A cell holds a 64-bit signed integer.  TLC's own integers are   *)
(* 32 bits wide, so a value is kept as sign and magnitude, the magnitude   *)
(* in limbs of four decimal digits, least significant first, without       *)
(* leading zero limbs.  The representation is canonical: two values are    *)
(* the same integer exactly when they are equal.                           *)

LimbBase == 10 ^ 4

RECURSIVE NatLimbs(_)
NatLimbs(n) ==
    IF n = 0 THEN <<>> ELSE <<n % LimbBase>> \o NatLimbs(n \div LimbBase)

\* the isize with the value of the (small) TLA+ integer n
I(n) ==
    IF n >= 0 THEN [neg |-> FALSE, mag |-> NatLimbs(n)]
              ELSE [neg |-> TRUE, mag |-> NatLimbs(-n)]

Zero == I(0)

RECURSIVE Strip(_)
Strip(m) ==
    IF m # <<>> /\ m[Len(m)] = 0 THEN Strip(SubSeq(m, 1, Len(m) - 1)) ELSE m

Signed(neg, m) == [neg |-> neg /\ m # <<>>, mag |-> m]

Mk(neg, mag) == Signed(neg, Strip(mag))

\* values below 10^8 in magnitude convert to a TLA+ integer
IsSmall(v) == Len(v.mag) <= 2

Limb(m, i) == IF i <= Len(m) THEN m[i] ELSE 0

ToInt(v) ==
    LET n == Limb(v.mag, 1) + LimbBase * Limb(v.mag, 2)
    IN  IF v.neg THEN -n ELSE n

Max(a, b) == IF a >= b THEN a ELSE b

RECURSIVE MagAddFrom(_, _, _, _)
MagAddFrom(a, b, i, carry) ==
    IF i > Max(Len(a), Len(b))
    THEN IF carry = 0 THEN <<>> ELSE <<carry>>
    ELSE LET s == Limb(a, i) + Limb(b, i) + carry
         IN  <<s % LimbBase>> \o MagAddFrom(a, b, i + 1, s \div LimbBase)

MagAdd(a, b) == MagAddFrom(a, b, 1, 0)

\* a - b for magnitudes with a >= b
RECURSIVE MagSubFrom(_, _, _, _)
MagSubFrom(a, b, i, borrow) ==
    IF i > Len(a) THEN <<>>
    ELSE LET d == Limb(a, i) - Limb(b, i) - borrow
         IN  IF d < 0 THEN <<d + LimbBase>> \o MagSubFrom(a, b, i + 1, 1)
                      ELSE <<d>> \o MagSubFrom(a, b, i + 1, 0)

MagSub(a, b) == Strip(MagSubFrom(a, b, 1, 0))

MagLess(a, b) ==
    IF Len(a) # Len(b) THEN Len(a) < Len(b)
    ELSE \E i \in 1..Len(a) :
            /\ a[i] < b[i]
            /\ \A j \in (i + 1)..Len(a) : a[j] = b[j]

RECURSIVE ConvSum(_, _, _, _)
\* the sum of a[i] * b[k + 1 - i] over i = from .. k
ConvSum(a, b, k, from) ==
    IF from > k THEN 0
    ELSE Limb(a, from) * Limb(b, k + 1 - from) + ConvSum(a, b, k, from + 1)

RECURSIVE MagMulFrom(_, _, _, _)
MagMulFrom(a, b, k, carry) ==
    IF k > Len(a) + Len(b)
    THEN IF carry = 0 THEN <<>> ELSE <<carry>>
    ELSE LET s == ConvSum(a, b, k, 1) + carry
         IN  <<s % LimbBase>> \o MagMulFrom(a, b, k + 1, s \div LimbBase)

MagMul(a, b) == Strip(MagMulFrom(a, b, 1, 0))

\* x + y on isize
Plus(x, y) ==
    IF IsSmall(x) /\ IsSmall(y) THEN I(ToInt(x) + ToInt(y))
    ELSE IF x.neg = y.neg THEN Mk(x.neg, MagAdd(x.mag, y.mag))
    ELSE IF MagLess(x.mag, y.mag) THEN Mk(y.neg, MagSub(y.mag, x.mag))
    ELSE Mk(x.neg, MagSub(x.mag, y.mag))

\* mutant: the product keeps its low eight decimal digits only
Times_Truncated(x, y) ==
    Mk(x.neg # y.neg, SubSeq(MagMul(x.mag, y.mag) \o <<0, 0>>, 1, 2))

\* x * y on isize
Times(x, y) ==
    IF Len(x.mag) <= 1 /\ Len(y.mag) <= 1 THEN I(ToInt(x) * ToInt(y))
    ELSE Mk(x.neg # y.neg, MagMul(x.mag, y.mag))

\* x < y on isize
Less(x, y) ==
    IF IsSmall(x) /\ IsSmall(y) THEN ToInt(x) < ToInt(y)
    ELSE IF x.neg # y.neg THEN x.neg
    ELSE IF x.neg THEN MagLess(y.mag, x.mag)
    ELSE MagLess(x.mag, y.mag)

\* code % 100 in Rust: the remainder takes the sign of the dividend
Rem100(code) ==
    LET r == Limb(code.mag, 1) % 100 IN IF code.neg THEN -r ELSE r

\* (code - code % 100) / 100: the digits above the two opcode digits
Div100(code) ==
    LET m == code.mag
        shifted == [i \in 1..Len(m) |->
                       (m[i] \div 100) + (Limb(m, i + 1) % 100) * 100]
    IN  Mk(code.neg, shifted)

\* isize::MAX = 9223372036854775807
IsizeMaxMag == <<5807, 5477, 368, 3372, 922>>

InIsize(v) ==
    \/ ~MagLess(IsizeMaxMag, v.mag)
    \/ v.neg /\ v.mag = MagAdd(IsizeMaxMag, <<1>>)

----------------------------------------------------------------------------
(* Text.  A string is a sequence of one-character strings.                 *)

NL == "\n"

DigitChars == <<"0", "1", "2", "3", "4", "5", "6", "7", "8", "9">>

RECURSIVE NatChars(_)
NatChars(n) ==
    IF n < 10 THEN <<DigitChars[n + 1]>>
    ELSE NatChars(n \div 10) \o <<DigitChars[(n % 10) + 1]>>

Pad4(n) ==
    << DigitChars[(n \div 1000) + 1], DigitChars[((n \div 100) % 10) + 1],
       DigitChars[((n \div 10) % 10) + 1], DigitChars[(n % 10) + 1] >>

RECURSIVE LowChars(_, _)
LowChars(m, k) == IF k = 0 THEN <<>> ELSE Pad4(m[k]) \o LowChars(m, k - 1)

\* isize::to_string, the "{}" of format!
to_string(v) ==
    IF v.mag = <<>> THEN <<"0">>
    ELSE (IF v.neg THEN <<"-">> ELSE <<>>)
         \o NatChars(v.mag[Len(v.mag)]) \o LowChars(v.mag, Len(v.mag) - 1)

IsWhite(ch) == ch \in {" ", NL, "\t", "\r"}

RECURSIVE TrimStart(_)
TrimStart(s) == IF s # <<>> /\ IsWhite(s[1]) THEN TrimStart(Tail(s)) ELSE s

RECURSIVE TrimEnd(_)
TrimEnd(s) ==
    IF s # <<>> /\ IsWhite(s[Len(s)])
    THEN TrimEnd(SubSeq(s, 1, Len(s) - 1)) ELSE s

\* str::trim
trim(s) == TrimEnd(TrimStart(s))

IsDigit(ch) == \E d \in 1..10 : DigitChars[d] = ch

DigitVal(ch) == (CHOOSE d \in 1..10 : DigitChars[d] = ch) - 1

RECURSIVE DigitsNat(_)
DigitsNat(ds) ==
    IF ds = <<>> THEN 0
    ELSE DigitsNat(SubSeq(ds, 1, Len(ds) - 1)) * 10 + DigitVal(ds[Len(ds)])

RECURSIVE DigitsMag(_)
DigitsMag(ds) ==
    IF Len(ds) <= 4 THEN <<DigitsNat(ds)>>
    ELSE <<DigitsNat(SubSeq(ds, Len(ds) - 3, Len(ds)))>>
         \o DigitsMag(SubSeq(ds, 1, Len(ds) - 4))

ParseValue(v) ==
    IF InIsize(v) THEN [ok |-> TRUE, val |-> v]
    ELSE [ok |-> FALSE, val |-> Zero]

ParseDigits(neg, ds) ==
    IF ds = <<>> \/ (\E i \in 1..Len(ds) : ~IsDigit(ds[i]))
    THEN [ok |-> FALSE, val |-> Zero]
    ELSE ParseValue(Mk(neg, DigitsMag(ds)))

ParseSigned(signed, s) ==
    ParseDigits(signed /\ s[1] = "-", IF signed THEN Tail(s) ELSE s)

\* str::parse::<isize>: an optional sign, then one or more decimal digits,
\* the value within the range of isize
parse(s) == ParseSigned(s # <<>> /\ s[1] \in {"+", "-"}, s)

----------------------------------------------------------------------------
(* Results of the fallible functions: tag "Ok", "Err" (an Err(String),     *)
(* err being its message without the formatted value), "Panic" (panic!),   *)
(* "Huge" (an index of 10^8 or more, beyond the memory sizes modelled: big *)
(* is its value), or "Overflow" (an arithmetic overflow of isize: a panic  *)
(* in a debug build, a wrapped value in a release build).                  *)

STARVING_ERROR == "Starving for mock input"

ValOk(v) == [tag |-> "Ok", err |-> "", val |-> v]
ValFail(tag, err) == [tag |-> tag, err |-> err, val |-> Zero]

IdxOk(i) == [tag |-> "Ok", err |-> "", idx |-> i, big |-> Zero]
IdxFail(tag, err) == [tag |-> tag, err |-> err, idx |-> 0, big |-> Zero]
IdxHuge(v) == [tag |-> "Huge", err |-> "", idx |-> 0, big |-> v]

Res(tag, err, c) ==
    [tag |-> tag, err |-> err, c |-> c, jumped |-> FALSE, printed |-> <<>>]

\* mutant: a negative value is taken for its magnitude
try_into_usize_Abs(v, err) ==
    IF ~IsSmall(v) THEN IdxHuge(v) ELSE IdxOk(ToInt([v EXCEPT !.neg = FALSE]))

\* isize -> usize by try_into().map_err(..)
try_into_usize(v, err) ==
    IF v.neg THEN IdxFail("Err", err)
    ELSE IF ~IsSmall(v) THEN IdxHuge(v)
    ELSE IdxOk(ToInt(v))

----------------------------------------------------------------------------
(* enum Operation                                                          *)

\* mutant: the remainder is taken without its sign
Operation_from_code_Unsigned(code) ==
    LET op_code == Limb(code.mag, 1) % 100
    IN  CASE op_code = 1 -> [tag |-> "Ok", err |-> "", op |-> "Add"]
          [] op_code = 2 -> [tag |-> "Ok", err |-> "", op |-> "Multiply"]
          [] op_code = 3 -> [tag |-> "Ok", err |-> "", op |-> "Input"]
          [] op_code = 4 -> [tag |-> "Ok", err |-> "", op |-> "Output"]
          [] op_code = 5 -> [tag |-> "Ok", err |-> "", op |-> "JumpIfTrue"]
          [] op_code = 6 -> [tag |-> "Ok", err |-> "", op |-> "JumpIfFalse"]
          [] op_code = 7 -> [tag |-> "Ok", err |-> "", op |-> "LessThan"]
          [] op_code = 8 -> [tag |-> "Ok", err |-> "", op |-> "Equals"]
          [] op_code = 9 ->
                [tag |-> "Ok", err |-> "", op |-> "AdjustRelativeBase"]
          [] op_code = 99 -> [tag |-> "Ok", err |-> "", op |-> "End"]
          [] OTHER -> [tag |-> "Err", err |-> "Invalid operation", op |-> ""]

Operation_from_code(code) ==
    LET op_code == Rem100(code)
    IN  CASE op_code = 1 -> [tag |-> "Ok", err |-> "", op |-> "Add"]
          [] op_code = 2 -> [tag |-> "Ok", err |-> "", op |-> "Multiply"]
          [] op_code = 3 -> [tag |-> "Ok", err |-> "", op |-> "Input"]
          [] op_code = 4 -> [tag |-> "Ok", err |-> "", op |-> "Output"]
          [] op_code = 5 -> [tag |-> "Ok", err |-> "", op |-> "JumpIfTrue"]
          [] op_code = 6 -> [tag |-> "Ok", err |-> "", op |-> "JumpIfFalse"]
          [] op_code = 7 -> [tag |-> "Ok", err |-> "", op |-> "LessThan"]
          [] op_code = 8 -> [tag |-> "Ok", err |-> "", op |-> "Equals"]
          [] op_code = 9 ->
                [tag |-> "Ok", err |-> "", op |-> "AdjustRelativeBase"]
          [] op_code = 99 -> [tag |-> "Ok", err |-> "", op |-> "End"]
          [] OTHER -> [tag |-> "Err", err |-> "Invalid operation", op |-> ""]

Operation_offset(op) ==
    CASE op \in {"Add", "Multiply", "LessThan", "Equals"} -> 4
      [] op \in {"Input", "Output", "AdjustRelativeBase"} -> 2
      [] op \in {"JumpIfTrue", "JumpIfFalse"} -> 3
      [] OTHER -> 0

----------------------------------------------------------------------------
(* enum ParameterMode                                                      *)

ModeOfChar(ch) ==
    CASE ch = "0" -> "PositionMode"
      [] ch = "1" -> "ImmediateMode"
      [] ch = "2" -> "RelativeMode"
      [] OTHER -> "Invalid"

\* mutant: an unknown mode digit counts as position mode
ModesCollected_Lenient(modes) ==
    [tag |-> "Ok", err |-> "",
     modes |-> [i \in 1..Len(modes) |->
                  IF modes[i] = "Invalid" THEN "PositionMode" ELSE modes[i]]]

\* collect::<Result<Vec<_>, String>>()
ModesCollected(modes) ==
    IF \E i \in 1..Len(modes) : modes[i] = "Invalid"
    THEN [tag |-> "Err", err |-> "Invalid parameter mode in op code",
          modes |-> <<>>]
    ELSE [tag |-> "Ok", err |-> "", modes |-> modes]

\* s.chars().rev().map(..)
ModesOfString(s) ==
    ModesCollected([i \in 1..Len(s) |-> ModeOfChar(s[Len(s) + 1 - i])])

ParameterMode_from_code(code) == ModesOfString(to_string(Div100(code)))

----------------------------------------------------------------------------
(* struct Computer { data, index, relative_base, mock_io } and MockStream  *)
(* (a byte queue to read from, a byte buffer written to).                  *)

None == [some |-> FALSE, reader |-> <<>>, writer |-> <<>>]
MockStream_new == [some |-> TRUE, reader |-> <<>>, writer |-> <<>>]

from_data(data) ==
    [data |-> data, index |-> 0, relative_base |-> Zero, mock_io |-> None]

\* mutant: an index past the end reads the last cell
read_cell_Clamped(c, index) ==
    IF index < Len(c.data) THEN c.data[index + 1]
    ELSE IF c.data = <<>> THEN Zero ELSE c.data[Len(c.data)]

read_cell(c, index) ==
    IF index < Len(c.data) THEN c.data[index + 1] ELSE Zero

\* Vec::resize(new_len, 0)
Resized(data, new_len) ==
    [i \in 1..new_len |-> IF i <= Len(data) THEN data[i] ELSE Zero]

\* mutant: the memory grows to index + 1 cells
write_cell_Exact(c, index, datum) ==
    [c EXCEPT !.data =
        [(IF index >= Len(c.data) THEN Resized(c.data, index + 1)
          ELSE c.data) EXCEPT ![index + 1] = datum]]

write_cell(c, index, datum) ==
    [c EXCEPT !.data =
        [(IF index >= Len(c.data) THEN Resized(c.data, 2 * index + 1)
          ELSE c.data) EXCEPT ![index + 1] = datum]]

\* mutant: a parameter without a mode digit is in immediate mode
ModeSelect_DefaultImmediate(modes, offset) ==
    IF modes.tag # "Ok"
    THEN [tag |-> modes.tag, err |-> modes.err, mode |-> ""]
    ELSE [tag |-> "Ok", err |-> "",
          mode |-> IF offset <= Len(modes.modes)
                   THEN modes.modes[offset] ELSE "ImmediateMode"]

\* modes.get(offset - 1).cloned().unwrap_or(ParameterMode::default())
ModeSelect(modes, offset) ==
    IF modes.tag # "Ok"
    THEN [tag |-> modes.tag, err |-> modes.err, mode |-> ""]
    ELSE [tag |-> "Ok", err |-> "",
          mode |-> IF offset <= Len(modes.modes)
                   THEN modes.modes[offset] ELSE "PositionMode"]

mode_for_offset(c, offset) ==
    ModeSelect(ParameterMode_from_code(read_cell(c, c.index)), offset)

\* the match of address_at_offset on the mode, and its try_into()
AddressInMode(c, index, mode) ==
    IF mode.tag # "Ok" THEN IdxFail(mode.tag, mode.err)
    ELSE IF mode.mode = "ImmediateMode"
    THEN IdxFail("Panic", "Immediate mode is not supported for outputs")
    ELSE try_into_usize(
             IF mode.mode = "PositionMode" THEN read_cell(c, index)
             ELSE Plus(read_cell(c, index), c.relative_base),
             "Attempted to use negative integer as index")

address_at_offset(c, offset) ==
    AddressInMode(c, c.index + offset, mode_for_offset(c, offset))

\* Vec::resize(2 * index + 1, 0) panics when the new length, in cells of
\* eight bytes, is more than isize::MAX bytes
CapacityOverflow(index) ==
    MagLess(IsizeMaxMag,
            MagMul(<<8>>, MagAdd(MagAdd(index.mag, index.mag), <<1>>)))

\* mutant: a write whose address fails still writes, at index 0
WriteAt_Partial(c, store_index, datum) ==
    IF store_index.tag = "Huge" /\ CapacityOverflow(store_index.big)
    THEN Res("Panic", "capacity overflow", c)
    ELSE IF store_index.tag # "Ok"
    THEN Res(store_index.tag, store_index.err, write_cell(c, 0, datum))
    ELSE Res("Ok", "", write_cell(c, store_index.idx, datum))

WriteAt(c, store_index, datum) ==
    IF store_index.tag = "Huge" /\ CapacityOverflow(store_index.big)
    THEN Res("Panic", "capacity overflow", c)
    ELSE IF store_index.tag # "Ok"
    THEN Res(store_index.tag, store_index.err, c)
    ELSE Res("Ok", "", write_cell(c, store_index.idx, datum))

write_at_offset(c, offset, datum) ==
    WriteAt(c, address_at_offset(c, offset), datum)

\* self.read_cell(self.address_at_offset(offset)?)
ReadAt(c, a) ==
    IF a.tag = "Ok" THEN ValOk(read_cell(c, a.idx))
    ELSE IF a.tag = "Huge" THEN ValOk(Zero)
    ELSE ValFail(a.tag, a.err)

ReadInMode(c, offset, mode) ==
    IF mode.tag # "Ok" THEN ValFail(mode.tag, mode.err)
    ELSE IF mode.mode \in {"PositionMode", "RelativeMode"}
    THEN ReadAt(c, address_at_offset(c, offset))
    ELSE ValOk(read_cell(c, c.index + offset))

read_at_offset(c, offset) == ReadInMode(c, offset, mode_for_offset(c, offset))

\* write_at_offset(3, result) once both operands x and y are read
StoreResult(c, x, y, result) ==
    IF x.tag # "Ok" THEN Res(x.tag, x.err, c)
    ELSE IF y.tag # "Ok" THEN Res(y.tag, y.err, c)
    ELSE IF ~InIsize(result) THEN Res("Overflow", "", c)
    ELSE write_at_offset(c, 3, result)

AddOperands(c, x, y) == StoreResult(c, x, y, Plus(x.val, y.val))

\* fn apply with |x, y| x + y
add(c) == AddOperands(c, read_at_offset(c, 1), read_at_offset(c, 2))

MultiplyOperands(c, x, y) == StoreResult(c, x, y, Times(x.val, y.val))

\* fn apply with |x, y| x * y
multiply(c) == MultiplyOperands(c, read_at_offset(c, 1), read_at_offset(c, 2))

\* the bytes up to and including the first line break (all of them when
\* there is none), as the loop over stream.bytes() collects them
FirstLine(r) ==
    LET ends == {i \in 1..Len(r) : r[i] = NL}
    IN  SubSeq(r, 1, IF ends = {} THEN Len(r)
                     ELSE CHOOSE i \in ends : \A j \in ends : i <= j)

PROMPT == <<"Please, enter input:", NL>>

UserInputParsed(p, c, printed, err) ==
    IF p.ok
    THEN [tag |-> "Ok", err |-> "", val |-> p.val, c |-> c,
          printed |-> printed]
    ELSE [tag |-> "Err", err |-> err, val |-> Zero, c |-> c,
          printed |-> printed]

\* mutant: reading one line empties the whole input queue
UserInputMock_TakesAll(c, bytes) ==
    UserInputParsed(
        parse(trim(bytes)), [c EXCEPT !.mock_io.reader = <<>>], <<>>,
        STARVING_ERROR)

\* mutant: a line that does not parse is reported like a console error
UserInputMock_AsConsoleError(c, bytes) ==
    UserInputParsed(
        parse(trim(bytes)),
        [c EXCEPT !.mock_io.reader = SubSeq(@, Len(bytes) + 1, Len(@))],
        <<>>, "Error parsing user input")

\* mutant: a line that does not parse stays at the head of the queue
UserInputMock_KeepsBadLine(c, bytes) ==
    UserInputParsed(
        parse(trim(bytes)),
        IF parse(trim(bytes)).ok
        THEN [c EXCEPT !.mock_io.reader = SubSeq(@, Len(bytes) + 1, Len(@))]
        ELSE c,
        <<>>, STARVING_ERROR)

UserInputMock(c, bytes) ==
    UserInputParsed(
        parse(trim(bytes)),
        [c EXCEPT !.mock_io.reader = SubSeq(@, Len(bytes) + 1, Len(@))],
        <<>>, STARVING_ERROR)

\* line: what read_line gets from the console when no stream is attached
user_input(c, line) ==
    IF c.mock_io.some THEN UserInputMock(c, FirstLine(c.mock_io.reader))
    ELSE UserInputParsed(parse(trim(line)), c, PROMPT,
                         "Error parsing user input")

Printing(r, printed) == [r EXCEPT !.printed = printed]

InputStore(u) ==
    IF u.tag # "Ok" THEN Printing(Res(u.tag, u.err, u.c), u.printed)
    ELSE Printing(write_at_offset(u.c, 1, u.val), u.printed)

input(c, line) == InputStore(user_input(c, line))

OutputLine(c, out) ==
    IF c.mock_io.some
    THEN Res("Ok", "", [c EXCEPT !.mock_io.writer = @ \o out])
    ELSE Printing(Res("Ok", "", c), out)

OutputValue(c, v) ==
    IF v.tag # "Ok" THEN Res(v.tag, v.err, c)
    ELSE OutputLine(c, to_string(v.val) \o <<NL>>)

output(c) == OutputValue(c, read_at_offset(c, 1))

SetIndex(c, i) ==
    IF i.tag # "Ok" THEN Res(i.tag, i.err, c)
    ELSE Res("Ok", "", [c EXCEPT !.index = i.idx])

SetIndexFrom(c, v) ==
    IF v.tag # "Ok" THEN Res(v.tag, v.err, c)
    ELSE SetIndex(c, try_into_usize(v.val,
             "Instruction pointer may only be set to an unsigned value"))

update_instruction_pointer(c) == SetIndexFrom(c, read_at_offset(c, 2))

\* mutant: a jump that was taken is reported as not taken
Jumped_Unreported(u) == u

\* Ok(true) after update_instruction_pointer()?
Jumped(u) == IF u.tag = "Ok" THEN [u EXCEPT !.jumped = TRUE] ELSE u

JumpIfTrueOn(c, v) ==
    IF v.tag # "Ok" THEN Res(v.tag, v.err, c)
    ELSE IF v.val # Zero THEN Jumped(update_instruction_pointer(c))
    ELSE Res("Ok", "", c)

jump_if_true(c) == JumpIfTrueOn(c, read_at_offset(c, 1))

\* mutant: JumpIfFalse jumps on a value that is not 0
JumpIfFalseOn_Inverted(c, v) ==
    IF v.tag # "Ok" THEN Res(v.tag, v.err, c)
    ELSE IF v.val # Zero THEN Jumped(update_instruction_pointer(c))
    ELSE Res("Ok", "", c)

JumpIfFalseOn(c, v) ==
    IF v.tag # "Ok" THEN Res(v.tag, v.err, c)
    ELSE IF v.val = Zero THEN Jumped(update_instruction_pointer(c))
    ELSE Res("Ok", "", c)

jump_if_false(c) == JumpIfFalseOn(c, read_at_offset(c, 1))

\* mutant: the operands of the comparison are swapped
LessThanOperands_Swapped(c, x, y) ==
    StoreResult(c, x, y, IF Less(y.val, x.val) THEN I(1) ELSE I(0))

LessThanOperands(c, x, y) ==
    StoreResult(c, x, y, IF Less(x.val, y.val) THEN I(1) ELSE I(0))

less_than(c) == LessThanOperands(c, read_at_offset(c, 1), read_at_offset(c, 2))

\* mutant: the magnitudes are compared, not the signed values
EqualsOperands_Unsigned(c, x, y) ==
    StoreResult(c, x, y, IF x.val.mag = y.val.mag THEN I(1) ELSE I(0))

EqualsOperands(c, x, y) ==
    StoreResult(c, x, y, IF x.val = y.val THEN I(1) ELSE I(0))

equals(c) == EqualsOperands(c, read_at_offset(c, 1), read_at_offset(c, 2))

\* mutant: the relative base is set, not adjusted
AdjustBy_Set(c, v) ==
    IF v.tag # "Ok" THEN Res(v.tag, v.err, c)
    ELSE Res("Ok", "", [c EXCEPT !.relative_base = v.val])

AdjustBy(c, v) ==
    IF v.tag # "Ok" THEN Res(v.tag, v.err, c)
    ELSE IF ~InIsize(Plus(c.relative_base, v.val)) THEN Res("Overflow", "", c)
    ELSE Res("Ok", "",
             [c EXCEPT !.relative_base = Plus(c.relative_base, v.val)])

\* mutant: the parameter cell is added, whatever its mode
adjust_relative_base_Raw(c) == AdjustBy(c, ValOk(read_cell(c, c.index + 1)))

adjust_relative_base(c) == AdjustBy(c, read_at_offset(c, 1))

\* Operation::apply: Ok(did_jump) is tag "Ok" with jumped
Operation_apply(op, c, line) ==
    CASE op = "Add" -> add(c)
      [] op = "Multiply" -> multiply(c)
      [] op = "Input" -> input(c, line)
      [] op = "Output" -> output(c)
      [] op = "JumpIfTrue" -> jump_if_true(c)
      [] op = "JumpIfFalse" -> jump_if_false(c)
      [] op = "LessThan" -> less_than(c)
      [] op = "Equals" -> equals(c)
      [] op = "AdjustRelativeBase" -> adjust_relative_base(c)
      [] op = "End" -> Res("Ok", "", c)

current_operation(c) == Operation_from_code(read_cell(c, c.index))

\* self.index += self.current_operation()?.offset()
Advance(c, current) ==
    IF current.tag # "Ok" THEN Res(current.tag, current.err, c)
    ELSE Res("Ok", "", [c EXCEPT !.index = @ + Operation_offset(current.op)])

next(c, did_jump) ==
    IF did_jump THEN Res("Ok", "", c) ELSE Advance(c, current_operation(c))

(* One iteration of the while loop of compute(), op being the operation    *)
(* fetched before it.  ret is what compute() returns at the end of the     *)
(* iteration, or "Continue" when the loop goes on with the operation op.   *)
Outcome(ret, err, c, op, printed) ==
    [ret |-> ret, err |-> err, c |-> c, op |-> op, printed |-> printed]

\* mutant: a cell that decodes to no operation ends the loop like Halt
AfterFetch_DoneOnError(op, printed, c, fetched) ==
    IF fetched.tag # "Ok" \/ fetched.op = "End"
    THEN Outcome("Done", "", c, "End", printed)
    ELSE Outcome("Continue", "", c, fetched.op, printed)

\* op = Operation::from_code(self.read_cell(self.index))?, and the test of
\* the while loop
AfterFetch(op, printed, c, fetched) ==
    IF fetched.tag # "Ok" THEN Outcome(fetched.tag, fetched.err, c, op, printed)
    ELSE IF fetched.op = "End" THEN Outcome("Done", "", c, fetched.op, printed)
    ELSE Outcome("Continue", "", c, fetched.op, printed)

\* self.next(did_jump)?
AfterNext(op, printed, moved) ==
    IF moved.tag # "Ok" THEN Outcome(moved.tag, moved.err, moved.c, op, printed)
    ELSE AfterFetch(op, printed, moved.c, current_operation(moved.c))

\* mutant: the instruction pointer moves past a starved Input
AfterApply_SkipStarved(op, result) ==
    IF result.tag = "Err" /\ result.err = STARVING_ERROR
    THEN Outcome("StarvingForMockInput", "", next(result.c, FALSE).c, op,
                 result.printed)
    ELSE IF result.tag # "Ok"
    THEN Outcome(result.tag, result.err, result.c, op, result.printed)
    ELSE AfterNext(op, result.printed, next(result.c, result.jumped))

\* the test for STARVING_ERROR, and let did_jump = result?
AfterApply(op, result) ==
    IF result.tag = "Err" /\ result.err = STARVING_ERROR
    THEN Outcome("StarvingForMockInput", "", result.c, op, result.printed)
    ELSE IF result.tag # "Ok"
    THEN Outcome(result.tag, result.err, result.c, op, result.printed)
    ELSE AfterNext(op, result.printed, next(result.c, result.jumped))

Iteration(c, op, line) == AfterApply(op, Operation_apply(op, c, line))

Attached(c) == IF c.mock_io.some THEN c ELSE [c EXCEPT !.mock_io = MockStream_new]

\* mutant: the bytes are put at the head of the queue
PushBytes_Front(c, bytes) == [c EXCEPT !.mock_io.reader = bytes \o @]

\* push_bytes_to_read(format!("{}\n", input).as_bytes())
PushBytes(c, bytes) == [c EXCEPT !.mock_io.reader = @ \o bytes]

set_mock_io_input(c, text) == PushBytes(Attached(c), text \o <<NL>>)

\* mutant: with no stream attached, one is attached and Ok("") returned
get_mock_io_output_Attaching(c) ==
    [tag |-> "Ok", text |-> c.mock_io.writer,
     c |-> [c EXCEPT !.mock_io = [@ EXCEPT !.some = TRUE, !.writer = <<>>]]]

\* mutant: the written bytes are returned and stay in the stream
get_mock_io_output_Keep(c) ==
    IF c.mock_io.some
    THEN [tag |-> "Ok", text |-> c.mock_io.writer, c |-> c]
    ELSE [tag |-> "Err", text |-> <<>>, c |-> c]

\* Ok(text) with the stream's written bytes taken out, or Err
get_mock_io_output(c) ==
    IF c.mock_io.some
    THEN [tag |-> "Ok", text |-> c.mock_io.writer,
          c |-> [c EXCEPT !.mock_io.writer = <<>>]]
    ELSE [tag |-> "Err", text |-> <<>>, c |-> c]

\* mutant: only commas split the text
RECURSIVE Split_Commas(_, _)
Split_Commas(s, piece) ==
    IF s = <<>> THEN <<piece>>
    ELSE IF s[1] = "," THEN <<piece>> \o Split_Commas(Tail(s), <<>>)
    ELSE Split_Commas(Tail(s), Append(piece, s[1]))

\* s.split(|c| c == '\n' || c == ','), piece being the piece begun
RECURSIVE Split(_, _)
Split(s, piece) ==
    IF s = <<>> THEN <<piece>>
    ELSE IF s[1] \in {NL, ","} THEN <<piece>> \o Split(Tail(s), <<>>)
    ELSE Split(Tail(s), Append(piece, s[1]))

Kept(p) == IF p.ok THEN <<p.val>> ELSE <<>>

\* filter_map(|s| s.parse().ok()).collect()
RECURSIVE ParsedOf(_)
ParsedOf(pieces) ==
    IF pieces = <<>> THEN <<>>
    ELSE Kept(parse(Head(pieces))) \o ParsedOf(Tail(pieces))

from_str(s) == from_data(ParsedOf(Split(s, <<>>)))

(* compute() as a whole, for a Computer with a stream attached (the        *)
(* console is not read).  ret is "Fuel" when the call is still running     *)
(* after fuel iterations.                                                  *)
RECURSIVE Loop(_, _, _)
RECURSIVE LoopOn(_, _)

LoopOn(it, fuel) ==
    IF it.ret = "Continue" THEN Loop(it.c, it.op, fuel - 1) ELSE it

Loop(c, op, fuel) ==
    IF fuel = 0 THEN Outcome("Fuel", "", c, op, <<>>)
    ELSE LoopOn(Iteration(c, op, <<>>), fuel)

ComputeFrom(c, first, fuel) ==
    IF first.tag # "Ok" THEN Outcome(first.tag, first.err, c, "", <<>>)
    ELSE IF first.op = "End" THEN Outcome("Done", "", c, first.op, <<>>)
    ELSE Loop(c, first.op, fuel)

compute(c, fuel) == ComputeFrom(c, current_operation(c), fuel)

----------------------------------------------------------------------------
(* The state: one Computer and its caller.                                 *)

VARIABLES
    computer,     \* the Computer
    pc,           \* "idle": no compute() call is active; "loop": inside
                  \* the while loop of compute()
    op,           \* the local variable op of compute()
    status,       \* what the last compute() call returned: "None" before
                  \* the first return, "Done", "StarvingForMockInput",
                  \* "Err", "Panic" (the call did not return), "Huge",
                  \* "Overflow"
    error,        \* the message of the last Err or panic
    stdout,       \* what was printed to the console
    last_output,  \* what the last get_mock_io_output() returned, and
                  \* history: how many bytes had been emitted at the last
                  \* two successful calls (from, at)
    prog,         \* history: the data the Computer was made from
    prev,         \* history: the Computer, op, console output and emitted
                  \* bytes before the last iteration, and the console line
                  \* it read
    pushed,       \* history: the texts given to set_mock_io_input, each
                  \* with the status compute() had last returned then
    emitted,      \* history: all the bytes written to the stream so far
    streamed,     \* history: every compute() call so far was made with a
                  \* stream attached and not after an Err
    steps,        \* history: the iterations run by the current (or the
                  \* last) compute() call
    heap,         \* the Computers made by clone(), in the order of their
                  \* allocation (empty while nothing was cloned)
    computers,    \* the caller's bindings to the Computers of heap: ref is
                  \* the place in heap, and history: from is the Computer
                  \* at the binding's last clone(), log the calls made
                  \* through the binding since, done the calls before
    source,       \* history: the text given to Computer::from_str, where
                  \* the parsing is specified (empty elsewhere)
    amps          \* the amplifiers of day 07 and the locals of their
                  \* callers: the Computers, the place in the chain, the
                  \* signal and the status of the round, the permutation
                  \* tried and the greatest signal so far (none elsewhere)

vars == <<computer, pc, op, status, error, stdout, last_output, prog, prev,
          pushed, emitted, streamed, steps, heap, computers, source, amps>>

\* bounds of the model
MaxSteps == 90
MaxPush == 2
MaxStdout == 6

Prog(s) == [i \in 1..Len(s) |-> I(s[i])]

\* the programs of the tests of day 02
Day02Programs ==
    { <<1, 0, 0, 0, 99>>, <<2, 3, 0, 3, 99>>, <<2, 4, 4, 5, 99, 0>>,
      <<1, 1, 1, 4, 99, 5, 6, 0, 99>>,
      <<1, 9, 10, 3, 2, 3, 11, 0, 99, 30, 40, 50>> }

\* the self-replicating program of the tests of day 09
Quine ==
    <<109, 1, 204, -1, 1001, 100, 1, 100, 1008, 100, 16, 101, 1006, 101, 0,
      99>>

\* one Add in every addressing mode (also the invalid ones: a write in
\* immediate mode, a mode digit 3), then Halt
AddPrograms ==
    { <<100 * m + 1, a, b, c, 99>> :
        m \in {0, 11, 100, 222, 3, 210},
        a \in {-1, 0, 6}, b \in {1, 4}, c \in {-1, 0, 4, 6} }

\* one Multiply, LessThan or Equals, then Halt
ThreeParam ==
    { <<100 * m + o, a, b, c, 99>> :
        o \in {2, 7, 8}, m \in {0, 11},
        a \in {-1, 0, 6}, b \in {1, 4}, c \in {0, 6} }

\* one Input, Output or AdjustRelativeBase, then Halt
OneParam ==
    { <<100 * m + o, a, 99>> :
        o \in {3, 4, 9}, m \in {0, 1, 2, 3}, a \in {-1, 0, 2, 6} }

\* one jump, then Halt
Jumps ==
    { <<100 * m + o, a, b, 99>> :
        o \in {5, 6}, m \in {0, 11, 10, 31},
        a \in {-1, 0, 3}, b \in {-1, 0, 3, 6} }

\* the relative base set to 2 or -1, then one instruction in relative
\* mode, then Halt
Based ==
    { <<109, r>> \o p : r \in {2, -1},
        p \in { <<100 * m + 1, a, b, c, 99>> :
                  m \in {222, 210},
                  a \in {-1, 0, 6}, b \in {1, 4}, c \in {-1, 0, 4, 6} }
              \cup { <<200 + o, a, 99>> : o \in {3, 4, 9}, a \in {-1, 0, 2, 6} }
              \cup { <<2200 + o, a, b, 99>> :
                       o \in {5, 6}, a \in {-1, 0, 3}, b \in {-1, 0, 3, 6} } }

\* programs that execute Input more than once: two inputs added and
\* printed (the result stored past the end of the memory), and an echo loop
IOPrograms ==
    { <<3, 11, 3, 12, 1, 11, 12, 13, 4, 13, 99>>,
      <<3, 7, 4, 7, 1105, 1, 0>> }

\* a self-jump, an endless growth of the relative base, memories that
\* start with no valid operation, and an Output whose operand is past the
\* end of the memory
Others ==
    { <<1105, 1, 0>>,
      <<109, 1, 1105, 1, 0>>,
      <<>>, <<0>>, <<98>>, <<-1>>, <<99>>, <<199>>, <<-99>>,
      <<4>>, <<104>>, <<204>> }

\* the programs of the tests of day 09, as their text
LargeValueText ==
    <<"1", "1", "0", "2", ",", "3", "4", "9", "1", "5", "1", "9", "2", ",",
       "3", "4", "9", "1", "5", "1", "9", "2", ",", "7", ",", "4", ",",
       "7", ",", "9", "9", ",", "0">>

MiddleValueText ==
    <<"1", "0", "4", ",", "1", "1", "2", "5", "8", "9", "9", "9", "0", "6",
       "8", "4", "2", "6", "2", "4", ",", "9", "9">>

\* a sum stored at the address 2^62, and at the address 10^9
FarWriteText ==
    <<"1", "1", "0", "1", ",", "1", ",", "1", ",", "4", "6", "1", "1", "6",
       "8", "6", "0", "1", "8", "4", "2", "7", "3", "8", "7", "9", "0",
       "4", ",", "9", "9">>

FarWriteText9 ==
    <<"1", "1", "0", "1", ",", "1", ",", "1", ",", "1", "0", "0", "0", "0",
       "0", "0", "0", "0", "0", ",", "9", "9">>

\* the cell at the address 2^50 printed
FarReadText ==
    <<"4", ",", "1", "1", "2", "5", "8", "9", "9", "9", "0", "6", "8", "4",
       "2", "6", "2", "4", ",", "9", "9">>

\* a product of 2^64
OverflowText ==
    <<"1", "1", "0", "2", ",", "4", "6", "1", "1", "6", "8", "6", "0", "1",
       "8", "4", "2", "7", "3", "8", "7", "9", "0", "4", ",", "4", ",",
       "0", ",", "9", "9">>

ProgramTexts ==
    { LargeValueText, MiddleValueText, FarWriteText, FarWriteText9,
      FarReadText, OverflowText }

Programs == Day02Programs \cup {Quine} \cup AddPrograms \cup ThreeParam
            \cup OneParam
            \cup Jumps \cup Based \cup IOPrograms \cup Others

\* the texts given to set_mock_io_input
InputTexts == { <<"5">>, <<>>, <<"-", "1", NL, "6">>, <<"x">> }

\* the lines a console user may type (EOF is the empty line)
StdinLines == { <<"7", NL>>, <<"y", NL>>, <<>> }

NoOutput == [tag |-> "None", text |-> <<>>, from |-> 0, at |-> 0]

NoAmplifiers == [pc |-> "none"]

NoPrev ==
    [valid |-> FALSE, c |-> from_data(<<>>), op |-> "", stdout |-> <<>>,
     emitted |-> <<>>, line |-> <<>>]

\* the texts whose lines are all integers
NumericTexts == { <<"5">>, <<"-", "1", NL, "6">> }

InitialPrograms ==
    {Prog(p) : p \in Programs} \cup {from_str(t).data : t \in ProgramTexts}

\* the caller gives up to MaxPush texts to the programs that execute Input
\* more than once, and one text to the others
PushLimit(p) == IF p \in {Prog(q) : q \in IOPrograms} THEN MaxPush ELSE 1

Init ==
    /\ prog \in InitialPrograms
    /\ computer = from_data(prog)
    /\ pc = "idle"
    /\ op = ""
    /\ status = "None"
    /\ error = ""
    /\ stdout = <<>>
    /\ last_output = NoOutput
    /\ prev = NoPrev
    /\ pushed = <<>>
    /\ emitted = <<>>
    /\ streamed = TRUE
    /\ steps = 0
    /\ heap = <<>>
    /\ computers = <<>>
    /\ source = <<>>
    /\ amps = NoAmplifiers

Alive == status \notin {"Panic", "Huge", "Overflow"}

\* mutant: a Computer that was Done fails when it is called again
Entered_DoneOnce(first) ==
    /\ pc' = IF first.tag = "Ok" /\ first.op # "End" THEN "loop" ELSE "idle"
    /\ op' = IF first.tag = "Ok" THEN first.op ELSE op
    /\ status' = IF first.tag # "Ok" \/ status = "Done" THEN "Err"
                 ELSE IF first.op = "End" THEN "Done" ELSE status
    /\ error' = IF first.tag # "Ok" THEN first.err ELSE error

\* compute(), up to its while loop
Entered(first) ==
    /\ pc' = IF first.tag = "Ok" /\ first.op # "End" THEN "loop" ELSE "idle"
    /\ op' = IF first.tag = "Ok" THEN first.op ELSE op
    /\ status' = IF first.tag # "Ok" THEN "Err"
                 ELSE IF first.op = "End" THEN "Done" ELSE status
    /\ error' = IF first.tag # "Ok" THEN first.err ELSE error

ComputeCall ==
    /\ pc = "idle" /\ Alive
    /\ Entered(current_operation(computer))
    /\ steps' = 0
    /\ streamed' = (streamed /\ computer.mock_io.some /\ status # "Err")
    /\ UNCHANGED <<computer, stdout, last_output, prog, prev, pushed, emitted,
                   heap, computers, source, amps>>

\* one iteration of the while loop of compute(), and its return if any
Iterated(it) ==
    /\ it.printed = <<>> \/ Len(stdout) < MaxStdout
    /\ computer' = it.c
    /\ op' = it.op
    /\ pc' = IF it.ret = "Continue" THEN "loop" ELSE "idle"
    /\ status' = IF it.ret = "Continue" THEN status ELSE it.ret
    /\ error' = IF it.ret = "Continue" THEN error ELSE it.err
    /\ stdout' = stdout \o it.printed
    /\ emitted' = emitted \o SubSeq(it.c.mock_io.writer,
                                    Len(computer.mock_io.writer) + 1,
                                    Len(it.c.mock_io.writer))

Step ==
    /\ pc = "loop" /\ steps < MaxSteps
    /\ \E line \in IF op = "Input" /\ ~computer.mock_io.some
                   THEN StdinLines ELSE {<<>>} :
         /\ Iterated(Iteration(computer, op, line))
         /\ prev' = [valid |-> TRUE, c |-> computer, op |-> op,
                     stdout |-> stdout, emitted |-> emitted,
                     line |-> line]
    /\ steps' = steps + 1
    /\ UNCHANGED <<last_output, prog, pushed, streamed, heap, computers,
                   source, amps>>

SetMockIoInput ==
    /\ pc = "idle" /\ Alive
    /\ Len(pushed) < PushLimit(prog)
    /\ \E text \in InputTexts :
         /\ computer' = set_mock_io_input(computer, text)
         /\ pushed' = Append(pushed, [text |-> text, after |-> status])
    /\ UNCHANGED <<pc, op, status, error, stdout, last_output, prog, prev,
                   emitted, streamed, steps, heap,
                   computers, source, amps>>

Drained(r) ==
    /\ computer' = r.c
    /\ last_output' = [tag |-> r.tag, text |-> r.text,
                       from |-> last_output.at,
                       at |-> IF r.tag = "Ok" THEN Len(emitted)
                              ELSE last_output.at]

GetMockIoOutput ==
    /\ pc = "idle" /\ Alive
    /\ Drained(get_mock_io_output(computer))
    /\ UNCHANGED <<pc, op, status, error, stdout, prog, prev, pushed, emitted,
                   streamed, steps, heap,
                   computers, source, amps>>

\* computer.mock_io = Some(MockStream::new()), as the caller of day 05 does
AttachMockIo ==
    /\ pc = "idle" /\ Alive
    /\ ~computer.mock_io.some
    /\ computer' = [computer EXCEPT !.mock_io = MockStream_new]
    /\ UNCHANGED <<pc, op, status, error, stdout, last_output, prog, prev,
                   pushed, emitted, streamed, steps, heap,
                   computers, source, amps>>

Next ==
    \/ ComputeCall
    \/ Step
    \/ SetMockIoInput
    \/ GetMockIoOutput
    \/ AttachMockIo

Spec == Init /\ [][Next]_vars

----------------------------------------------------------------------------
(* Properties.                                                             *)

\* prev is the iteration that ran last, and no compute() call began since
LastStep == prev.valid /\ steps > 0

\* the last iteration ran to its end: it neither starved nor failed
Completed == LastStep /\ (pc = "loop" \/ status = "Done")

\* C2 as stated: in every machine state, an Input instruction that finds no
\* queued value makes compute() return Ok(StarvingForMockInput), without
\* waiting for the console and without an error.
C2_StarvedInputSuspendsInEveryState ==
    (LastStep /\ prev.op = "Input" /\ prev.c.mock_io.reader = <<>>)
        => /\ pc = "idle"
           /\ status = "StarvingForMockInput"
           /\ stdout = prev.stdout

\* C2 as amended: with a stream attached, an Input instruction that finds
\* the input queue empty makes compute() return Ok(StarvingForMockInput):
\* the console is not used and no Err is returned.
C2_StarvedInputSuspends ==
    (LastStep /\ prev.op = "Input" /\ prev.c.mock_io.some
        /\ prev.c.mock_io.reader = <<>>)
        => /\ pc = "idle"
           /\ status = "StarvingForMockInput"
           /\ stdout = prev.stdout

C2_Witness ==
    /\ LastStep /\ prev.op = "Input" /\ prev.c.mock_io.some
    /\ prev.c.mock_io.reader = <<>>
    /\ status = "StarvingForMockInput"

\* C3: when compute() returns StarvingForMockInput the instruction pointer
\* is still at the Input instruction, memory and relative base are as they
\* were before it was attempted, and the next compute() call starts with
\* that same Input instruction.
C3_StarvedInputNotConsumed ==
    /\ (LastStep /\ pc = "idle" /\ status = "StarvingForMockInput")
          => /\ prev.op = "Input"
             /\ computer.index = prev.c.index
             /\ computer.data = prev.c.data
             /\ computer.relative_base = prev.c.relative_base
             /\ Rem100(read_cell(computer, computer.index)) = 3
    /\ (prev.valid /\ pc = "loop" /\ steps = 0
            /\ status = "StarvingForMockInput")
          => /\ op = "Input"
             /\ computer.index = prev.c.index
             /\ computer.data = prev.c.data
             /\ computer.relative_base = prev.c.relative_base

C3_Witness ==
    /\ prev.valid /\ pc = "loop" /\ steps = 0
    /\ status = "StarvingForMockInput"
    /\ op = "Input"
    /\ computer.mock_io.reader # <<>>

\* whether the jump of the last iteration was taken
JumpTaken ==
    /\ prev.op \in {"JumpIfTrue", "JumpIfFalse"}
    /\ (read_at_offset(prev.c, 1).val # Zero) = (prev.op = "JumpIfTrue")

\* C4 as stated: after an instruction that neither takes a jump nor starves
\* the instruction pointer has grown by the offset of the instruction that
\* was executed; after a taken jump it is the jump target.
C4_IpAdvancesByOffsetOfExecuted ==
    Completed =>
        IF JumpTaken
        THEN I(computer.index) = read_at_offset(prev.c, 2).val
        ELSE computer.index = prev.c.index + Operation_offset(prev.op)

RECURSIVE PushAll(_, _, _)
PushAll(c, entries, i) ==
    IF i > Len(entries) THEN c
    ELSE PushAll(set_mock_io_input(c, entries[i].text), entries, i + 1)

\* a Computer made from the same data, with a stream attached and all the
\* texts of pushed queued before its first compute() call
QueuedFirst == PushAll(Attached(from_data(prog)), pushed, 1)

\* every text pushed was made of integers, and compute() was always called
\* with a stream attached and never after an Err
Resumable ==
    streamed /\ \A i \in 1..Len(pushed) : pushed[i].text \in NumericTexts

SameAs(r) ==
    \/ r.ret = "Fuel"
    \/ /\ r.ret = status
       /\ r.c.data = computer.data
       /\ r.c.index = computer.index
       /\ r.c.relative_base = computer.relative_base
       /\ r.c.mock_io.writer = emitted

\* C1: a machine that was given its input values as it starved, one
\* compute() call after the other, ends with the memory, instruction
\* pointer, relative base, status and emitted output of a machine that had
\* all these values queued before its only compute() call.
C1_Resumable ==
    (/\ pc = "idle" /\ Resumable
     /\ status \in {"Done", "StarvingForMockInput", "Err"}
     /\ (status = "StarvingForMockInput" => computer.mock_io.reader = <<>>))
        => SameAs(compute(QueuedFirst, MaxSteps * (MaxPush + 1)))

\* the machine starved twice, was given 5 each time, and printed their sum
C1_Witness ==
    /\ pc = "idle" /\ Resumable /\ status = "Done"
    /\ Len(pushed) = 2
    /\ \A i \in 1..Len(pushed) : pushed[i].after = "StarvingForMockInput"
    /\ emitted = <<"1", "0", NL>>

RECURSIVE RefRun(_, _, _)
(* The reading of C5: from address ip, cells 1 and 2 are Add and Multiply  *)
(* in positional mode on three addresses inside the memory, 99 is Halt.    *)
RefRun(mem, ip, fuel) ==
    IF fuel = 0 \/ ip >= Len(mem) THEN [halted |-> FALSE, mem |-> mem]
    ELSE IF mem[ip + 1] = I(99) THEN [halted |-> TRUE, mem |-> mem]
    ELSE IF /\ mem[ip + 1] \in {I(1), I(2)}
            /\ ip + 3 < Len(mem)
            /\ \A k \in 1..3 :
                 /\ ~mem[ip + 1 + k].neg /\ IsSmall(mem[ip + 1 + k])
                 /\ ToInt(mem[ip + 1 + k]) < Len(mem)
    THEN RefRun([mem EXCEPT ![ToInt(mem[ip + 4]) + 1] =
                    IF mem[ip + 1] = I(1)
                    THEN Plus(mem[ToInt(mem[ip + 2]) + 1],
                              mem[ToInt(mem[ip + 3]) + 1])
                    ELSE Times(mem[ToInt(mem[ip + 2]) + 1],
                               mem[ToInt(mem[ip + 3]) + 1])],
                ip + 4, fuel - 1)
    ELSE [halted |-> FALSE, mem |-> mem]

C5_Holds(ref) ==
    ref.halted => (status = "Done" /\ computer.data = ref.mem)

\* C5 as stated: for every program made only of positional Add and Multiply
\* instructions followed by Halt, compute() returns Done and the memory is
\* the initial memory with mem[c] := mem[a] + mem[b] or mem[a] * mem[b]
\* applied for each instruction in order.
C5_AddMultiplyPrograms ==
    (pc = "idle" /\ status # "None") => C5_Holds(RefRun(prog, 0, MaxSteps))

\* the five examples of the tests of day 02 end as the tests say
C5_Day02Examples ==
    (pc = "idle" /\ status # "None") =>
        /\ prog = Prog(<<1, 0, 0, 0, 99>>) =>
              status = "Done" /\ computer.data = Prog(<<2, 0, 0, 0, 99>>)
        /\ prog = Prog(<<2, 3, 0, 3, 99>>) =>
              status = "Done" /\ computer.data = Prog(<<2, 3, 0, 6, 99>>)
        /\ prog = Prog(<<2, 4, 4, 5, 99, 0>>) =>
              status = "Done"
              /\ computer.data = Prog(<<2, 4, 4, 5, 99, 9801>>)
        /\ prog = Prog(<<1, 1, 1, 4, 99, 5, 6, 0, 99>>) =>
              status = "Done"
              /\ computer.data = Prog(<<30, 1, 1, 4, 2, 5, 6, 0, 99>>)
        /\ prog = Prog(<<1, 9, 10, 3, 2, 3, 11, 0, 99, 30, 40, 50>>) =>
              status = "Done"
              /\ computer.data =
                    Prog(<<3500, 9, 10, 70, 2, 3, 11, 0, 99, 30, 40, 50>>)

----------------------------------------------------------------------------
(* The caller of day 05: compute_with_input(computer.clone(), input) on    *)
(* the comparison program of its tests.                                    *)

Day05Program ==
    <<3, 21, 1008, 21, 8, 20, 1005, 20, 22, 107, 8, 21, 20, 1006, 20, 31,
      1106, 0, 36, 98, 0, 0, 1002, 21, 125, 20, 4, 20, 1105, 1, 46, 104,
      999, 1105, 1, 46, 1101, 1000, 1, 20, 4, 20, 1105, 1, 46, 98, 99>>

\* the inputs given are -MaxInput .. MaxInput
MaxInput == 14

InitDay05 ==
    /\ prog = Prog(Day05Program)
    /\ computer = from_data(prog)
    /\ pc = "idle"
    /\ op = ""
    /\ status = "None"
    /\ error = ""
    /\ stdout = <<>>
    /\ last_output = NoOutput
    /\ prev = NoPrev
    /\ pushed = <<>>
    /\ emitted = <<>>
    /\ streamed = TRUE
    /\ steps = 0
    /\ heap = <<>>
    /\ computers = <<>>
    /\ source = <<>>
    /\ amps = NoAmplifiers

\* the stream made by compute_with_input
InputStream(value) ==
    [MockStream_new EXCEPT !.reader = to_string(value) \o <<NL>>]

\* the clone with the stream assigned, and compute() up to its while loop
Day05Called(c) ==
    /\ computer' = c
    /\ Entered(current_operation(c))

\* compute_with_input, up to the while loop of compute()
ComputeWithInput ==
    /\ pc = "idle"
    /\ status = "None" \/ last_output.tag # "None"
    /\ \E n \in (0 - MaxInput)..MaxInput :
         /\ Day05Called([from_data(prog) EXCEPT !.mock_io = InputStream(I(n))])
         /\ pushed' = <<[text |-> to_string(I(n)), after |-> "None",
                         input |-> n]>>
    /\ last_output' = NoOutput
    /\ prev' = NoPrev
    /\ emitted' = <<>>
    /\ steps' = 0
    /\ UNCHANGED <<stdout, prog, streamed, heap, computers,
                   source, amps>>

\* compute().unwrap(), then pop_bytes_written()
PopBytesWritten ==
    /\ pc = "idle"
    /\ status \in {"Done", "StarvingForMockInput", "Err"}
    /\ last_output.tag = "None"
    /\ IF status = "Err"
       THEN /\ status' = "Panic"
            /\ UNCHANGED <<computer, last_output>>
       ELSE /\ Drained(get_mock_io_output(computer))
            /\ UNCHANGED status
    /\ UNCHANGED <<pc, op, error, stdout, prog, prev, pushed, emitted,
                   streamed, steps, heap,
                   computers, source, amps>>

NextDay05 ==
    \/ ComputeWithInput
    \/ Step
    \/ PopBytesWritten

SpecDay05 == InitDay05 /\ [][NextDay05]_vars

\* C6: the comparison program, run with one queued input n, halts and the
\* drained output is 999 when n < 8, 1000 when n = 8 and 1001 when n > 8.
C6_ComparesWithEight ==
    (pc = "idle" /\ status # "None" /\ last_output.tag # "None") =>
        /\ status = "Done"
        /\ last_output.tag = "Ok"
        /\ last_output.text =
              IF pushed[1].input < 8 THEN <<"9", "9", "9", NL>>
              ELSE IF pushed[1].input = 8 THEN <<"1", "0", "0", "0", NL>>
              ELSE <<"1", "0", "0", "1", NL>>

\* all three outcomes are met: here the input 9 gave 1001
C6_Witness ==
    /\ pc = "idle" /\ status = "Done" /\ last_output.tag = "Ok"
    /\ pushed[1].input = 9
    /\ last_output.text = <<"1", "0", "0", "1", NL>>

----------------------------------------------------------------------------

\* C7: the self-replicating program, run with a stream attached, halts with
\* Done and what it wrote is its own 16 values, one per line, nothing else.
C7_QuinePrintsItself ==
    (prog = Prog(Quine) /\ streamed /\ pc = "idle" /\ status # "None") =>
        /\ status = "Done"
        /\ stdout = <<>>
        /\ emitted =
              <<"1", "0", "9", NL, "1", NL, "2", "0", "4", NL, "-", "1",
                 NL, "1", "0", "0", "1", NL, "1", "0", "0", NL, "1", NL,
                 "1", "0", "0", NL, "1", "0", "0", "8", NL, "1", "0", "0",
                 NL, "1", "6", NL, "1", "0", "1", NL, "1", "0", "0", "6",
                 NL, "1", "0", "1", NL, "0", NL, "9", "9", NL>>

\* the caller of the test: a blank text pushed, compute(), output drained
C7_Witness ==
    /\ prog = Prog(Quine) /\ streamed /\ status = "Done"
    /\ Len(pushed) = 1 /\ pushed[1].text = <<>>
    /\ last_output.tag = "Ok" /\ Len(last_output.text) = Len(emitted)
    /\ Len(emitted) > 16

\* C8: the product 34915192 * 34915192 and the literal 1125899906842624 are
\* printed exactly, digit for digit.
C8_WideValuesExact ==
    (pc = "idle" /\ status # "None") =>
        /\ prog = from_str(LargeValueText).data =>
              /\ status = "Done"
              /\ stdout \o emitted =
                    <<"1", "2", "1", "9", "0", "7", "0", "6", "3", "2", "3",
                      "9", "6", "8", "6", "4", NL>>
        /\ prog = from_str(MiddleValueText).data =>
              /\ status = "Done"
              /\ stdout \o emitted =
                    <<"1", "1", "2", "5", "8", "9", "9", "9", "0", "6", "8",
                      "4", "2", "6", "2", "4", NL>>

\* the product was stored in cell 7 and printed to the stream
C8_Witness ==
    /\ pc = "idle" /\ status = "Done"
    /\ Len(prog) = 8 /\ prog[1] = I(1102)
    /\ computer.data[8] = Mk(FALSE, <<6864, 3239, 706, 1219>>)
    /\ Len(emitted) = 17

\* the instructions that store a value, and the offset of the parameter
\* that says where
Writes(o) == o \in {"Add", "Multiply", "Input", "LessThan", "Equals"}

WriteOffset(o) == IF o = "Input" THEN 1 ELSE 3

Operand(k) == read_at_offset(prev.c, k)

\* the value the last iteration had to store
StoredValue ==
    CASE prev.op = "Input" -> user_input(prev.c, prev.line).val
      [] prev.op = "Add" -> Plus(Operand(1).val, Operand(2).val)
      [] prev.op = "Multiply" -> Times(Operand(1).val, Operand(2).val)
      [] prev.op = "LessThan" ->
            IF Less(Operand(1).val, Operand(2).val) THEN I(1) ELSE I(0)
      [] prev.op = "Equals" ->
            IF Operand(1).val = Operand(2).val THEN I(1) ELSE I(0)
      [] OTHER -> Zero

\* the last iteration got as far as storing a value
ReachedWrite ==
    /\ LastStep /\ Writes(prev.op)
    /\ IF prev.op = "Input" THEN user_input(prev.c, prev.line).tag = "Ok"
       ELSE Operand(1).tag = "Ok" /\ Operand(2).tag = "Ok"
    /\ InIsize(StoredValue)

Grown(i, datum) ==
    /\ Len(computer.data) = 2 * i + 1
    /\ \A k \in 1..Len(prev.c.data) : computer.data[k] = prev.c.data[k]
    /\ computer.data[i + 1] = datum
    /\ \A k \in (Len(prev.c.data) + 1)..(2 * i + 1) :
          k # i + 1 => computer.data[k] = Zero

GrowthNeverFails(target) ==
    (target.tag = "Huge" \/
     (target.tag = "Ok" /\ target.idx >= Len(prev.c.data)))
        => /\ status # "Panic"
           /\ target.tag = "Ok" => Grown(target.idx, StoredValue)

GrowthWhenAllocated(target) ==
    (target.tag = "Ok" /\ target.idx >= Len(prev.c.data))
        => /\ status # "Panic"
           /\ Grown(target.idx, StoredValue)

Printed ==
    IF prev.c.mock_io.some
    THEN SubSeq(emitted, Len(prev.emitted) + 1, Len(emitted))
    ELSE SubSeq(stdout, Len(prev.stdout) + 1, Len(stdout))

\* the address an Output in position or relative mode reads, when it is at
\* or beyond the end of the memory
ReadsBeyond(code, operand) ==
    /\ code \in {I(4), I(204)}
    /\ prev.c.index + 1 < Len(prev.c.data)
    /\ ~Less(IF code = I(4) THEN operand
             ELSE Plus(operand, prev.c.relative_base),
             I(Len(prev.c.data)))

\* C10: a read at a non-negative index at or beyond the memory length gives
\* 0, does not fail and leaves the memory as it was: an Output of such a
\* cell prints 0, an Output whose operand cell is beyond the end reads
\* address 0, and a fetch beyond the end decodes the operation code 0.
C10_ReadBeyondLengthIsZero ==
    /\ (LastStep /\ prev.op = "Output"
           /\ ReadsBeyond(read_cell(prev.c, prev.c.index),
                          read_cell(prev.c, prev.c.index + 1)))
          => /\ Printed = <<"0", NL>>
             /\ computer.data = prev.c.data
             /\ status \notin {"Panic", "Huge"}
    /\ (LastStep /\ prev.op = "Output" /\ prev.c.data = <<I(4)>>)
          => Printed = <<"4", NL>> /\ computer.data = prev.c.data
    /\ (pc = "idle" /\ status \in {"Done", "StarvingForMockInput", "Err"}
           /\ computer.index >= Len(computer.data))
          => /\ status = "Err" /\ error = "Invalid operation"
             /\ (steps = 0 /\ ~prev.valid) => computer.data = prog
    /\ \A i \in Len(computer.data)..(Len(computer.data) + 2) :
          read_cell(computer, i) = Zero

\* the Output of cell 6 of a memory of 3 cells, fetched next at index 2
C10_Witness ==
    /\ LastStep /\ prev.op = "Output"
    /\ prev.c.data = Prog(<<4, 6, 99>>)
    /\ Printed = <<"0", NL>>
    /\ status = "Done"

----------------------------------------------------------------------------

\* the mode digit of parameter k of the instruction of the last iteration
\* (0 beyond the digits of the cell)
ModeDigit(k) ==
    (ToInt(read_cell(prev.c, prev.c.index)) \div (10 ^ (k + 1))) % 10

\* parameter k of the last iteration, in position or relative mode, resolves
\* to a negative address
NegAddr(k) ==
    \/ /\ ModeDigit(k) = 0
       /\ read_cell(prev.c, prev.c.index + k).neg
    \/ /\ ModeDigit(k) = 2
       /\ Plus(read_cell(prev.c, prev.c.index + k), prev.c.relative_base).neg

\* the last iteration resolved a parameter to a negative address: an Input
\* resolves its parameter once it has a value, a jump resolves its target
\* once its condition is met
ResolvedNegative ==
    /\ LastStep
    /\ IsSmall(read_cell(prev.c, prev.c.index))
    /\ CASE prev.op \in {"Add", "Multiply", "LessThan", "Equals"} ->
              (NegAddr(1) \/ NegAddr(2) \/ NegAddr(3)) /\ status # "Overflow"
         [] prev.op = "Input" ->
              NegAddr(1) /\ status # "StarvingForMockInput"
         [] prev.op \in {"Output", "AdjustRelativeBase"} -> NegAddr(1)
         [] prev.op \in {"JumpIfTrue", "JumpIfFalse"} ->
              NegAddr(1) \/ (NegAddr(2) /\ JumpTaken)
         [] OTHER -> FALSE

C12_ImmediateWriteIsErr ==
    (ReachedWrite /\ ModeDigit(WriteOffset(prev.op)) = 1)
        => pc = "idle" /\ status = "Err"

\* the cell v has a remainder by 100 that is an operation code (the
\* remainder of a negative cell is negative or 0)
KnownCode(v) ==
    ~v.neg /\ (Limb(v.mag, 1) % 100) \in (1..9) \cup {99}

\* C13: the cell at the instruction pointer is decoded by its remainder by
\* 100; the loop of compute() only runs an instruction whose remainder is
\* one of 1..9, and a compute() call that fetched any other remainder but
\* 99, first or after an advance or a jump, has returned Err.
C13_UnknownCodeIsErr ==
    /\ pc = "loop" =>
          /\ KnownCode(read_cell(computer, computer.index))
          /\ Limb(read_cell(computer, computer.index).mag, 1) % 100 # 99
    /\ (pc = "idle" /\ status # "None"
           /\ ~KnownCode(read_cell(computer, computer.index)))
          => status = "Err" /\ error = "Invalid operation"
    /\ (pc = "idle" /\ status = "Done")
          => Limb(read_cell(computer, computer.index).mag, 1) % 100 = 99

\* a jump to a cell that holds no operation code
C13_Witness ==
    /\ LastStep /\ prev.op \in {"JumpIfTrue", "JumpIfFalse"}
    /\ computer.index # prev.c.index + 3
    /\ ~KnownCode(read_cell(computer, computer.index))
    /\ status = "Err" /\ error = "Invalid operation"

\* the highest mode digit position of the cells of the programs modelled
MaxModeDigits == 6

\* the instruction of the last iteration carries a mode digit above 2
BadModeDigit ==
    /\ IsSmall(read_cell(prev.c, prev.c.index))
    /\ \E k \in 1..MaxModeDigits : ModeDigit(k) > 2

ParamCell(k) == read_cell(prev.c, prev.c.index + k)

\* the cell at a non-negative address
CellAt(a) == IF IsSmall(a) THEN read_cell(prev.c, ToInt(a)) ELSE Zero

\* the value of parameter k of the last iteration, by its mode digit:
\* 0 the cell at the address in the parameter cell, 1 the parameter cell,
\* 2 the cell at that address plus the relative base
ParamValue(k) ==
    CASE ModeDigit(k) = 0 -> CellAt(ParamCell(k))
      [] ModeDigit(k) = 1 -> ParamCell(k)
      [] OTHER -> CellAt(Plus(ParamCell(k), prev.c.relative_base))

\* the address parameter k of the last iteration stores to
ParamTarget(k) ==
    IF ModeDigit(k) = 0 THEN ParamCell(k)
    ELSE Plus(ParamCell(k), prev.c.relative_base)

\* C14: an instruction other than Halt whose cell has a digit other than 0,
\* 1, 2 above its two opcode digits makes compute() return the invalid
\* parameter mode Err when it is executed (an Input: once it has a value);
\* the digits 0, 1, 2, least significant first, select position, immediate
\* and relative mode for parameters 1, 2 and 3 (seen on Add and Multiply:
\* the value stored, and where).
C14_ModeDigits ==
    /\ (LastStep /\ BadModeDigit
           /\ (prev.op = "Input" =>
                  user_input(prev.c, prev.line).tag = "Ok"))
          => /\ pc = "idle" /\ status = "Err"
             /\ error = "Invalid parameter mode in op code"
             /\ computer.data = prev.c.data
             /\ computer.index = prev.c.index
    /\ (LastStep /\ prev.op \in {"Add", "Multiply"} /\ ~BadModeDigit
           /\ status # "Overflow"
           /\ IsSmall(read_cell(prev.c, prev.c.index))
           /\ ~NegAddr(1) /\ ~NegAddr(2) /\ ~NegAddr(3)
           /\ ModeDigit(3) # 1 /\ IsSmall(ParamTarget(3)))
          => computer.data[ToInt(ParamTarget(3)) + 1] =
                IF prev.op = "Add" THEN Plus(ParamValue(1), ParamValue(2))
                ELSE Times(ParamValue(1), ParamValue(2))

\* a jump with its first parameter in immediate mode and the digit 3 for
\* its second
C14_Witness ==
    /\ LastStep /\ prev.op = "JumpIfTrue"
    /\ ModeDigit(1) = 1 /\ ModeDigit(2) = 3
    /\ status = "Err" /\ error = "Invalid parameter mode in op code"

\* a sum of an immediate and a positional operand stored in relative mode
C14_WitnessModes ==
    /\ LastStep /\ prev.op = "Add"
    /\ ModeDigit(1) = 0 /\ ModeDigit(2) = 1 /\ ModeDigit(3) = 2
    /\ prev.c.relative_base # Zero
    /\ Len(computer.data) > Len(prev.c.data)

\* C15: the stream's buffer holds exactly what the Output instructions
\* wrote since the last drain, over any number of compute() calls, each
\* value as its decimal text and a line break; get_mock_io_output() returns
\* all of it and empties the buffer, so that a drain that follows at once
\* returns the empty text.
C15_OutputAccumulatesUntilDrained ==
    /\ computer.mock_io.some =>
          computer.mock_io.writer =
              SubSeq(emitted, last_output.at + 1, Len(emitted))
    /\ last_output.tag = "Ok" =>
          last_output.text =
              SubSeq(emitted, last_output.from + 1, last_output.at)
    /\ (last_output.tag = "Ok" /\ last_output.at = Len(emitted)
           /\ computer.mock_io.some)
          => computer.mock_io.writer = <<>>
    /\ (Completed /\ prev.op = "Output" /\ prev.c.mock_io.some
           /\ IsSmall(read_cell(prev.c, prev.c.index)))
          => Printed = to_string(ParamValue(1)) \o <<NL>>

\* the echo loop: 5 printed and drained, then -1 and 6 printed in a later
\* compute() call and drained together
C15_Witness ==
    /\ last_output.tag = "Ok"
    /\ last_output.from = 2
    /\ last_output.text = <<"-", "1", NL, "6", NL>>
    /\ emitted = <<"5", NL, "-", "1", NL, "6", NL>>

\* the texts pushed so far, each with its line break, from the i-th on
RECURSIVE PushedFrom(_)
PushedFrom(i) ==
    IF i > Len(pushed) THEN <<>>
    ELSE pushed[i].text \o <<NL>> \o PushedFrom(i + 1)

IsSuffix(s, t) ==
    Len(s) <= Len(t) /\ s = SubSeq(t, Len(t) - Len(s) + 1, Len(t))

IsPrefix(s, t) == Len(s) <= Len(t) /\ s = SubSeq(t, 1, Len(s))

\* the Input of the last iteration stored the value v: v is the first line
\* of the queue as it was, and the queue has lost that line
TookFirstLine(v, before, after) ==
    /\ IsPrefix(to_string(v) \o <<NL>>, before)
    /\ after = SubSeq(before, Len(to_string(v)) + 2, Len(before))

\* C16: the input queue is first-in first-out: it always is a tail of the
\* texts pushed, each followed by a line break, in the order of the pushes;
\* an Input takes the first line of the queue and leaves the rest; the echo
\* loop prints the integers pushed, also several in one text, in the order
\* they were pushed.
C16_InputIsFifo ==
    /\ computer.mock_io.some => IsSuffix(computer.mock_io.reader, PushedFrom(1))
    /\ (LastStep /\ prev.op = "Input" /\ prev.c.mock_io.some
           /\ status \notin {"StarvingForMockInput", "Panic", "Huge"}
           /\ ModeDigit(1) \in {0, 2} /\ ~BadModeDigit /\ ~NegAddr(1)
           /\ IsSmall(ParamTarget(1)))
          => TookFirstLine(computer.data[ToInt(ParamTarget(1)) + 1],
                           prev.c.mock_io.reader, computer.mock_io.reader)
    /\ (prog = Prog(<<3, 7, 4, 7, 1105, 1, 0>>) /\ Resumable)
          => IsPrefix(emitted, PushedFrom(1))

\* the echo loop given 5, then -1 and 6 in one text, has printed all three
C16_Witness ==
    /\ prog = Prog(<<3, 7, 4, 7, 1105, 1, 0>>) /\ Resumable
    /\ Len(pushed) = 2
    /\ pushed[2].text = <<"-", "1", NL, "6">>
    /\ emitted = PushedFrom(1)
    /\ status = "StarvingForMockInput"

\* what get_mock_io_output() does in the current state
DrainGives(r) ==
    IF computer.mock_io.some
    THEN r.tag = "Ok" /\ r.text = computer.mock_io.writer
    ELSE r.tag = "Err" /\ r.c = computer

\* C17: with no stream attached get_mock_io_output() returns Err and leaves
\* the Computer as it is; with a stream attached it returns Ok, also when
\* nothing was written; the calls made so far returned accordingly.
C17_DrainWithoutChannelIsErr ==
    /\ DrainGives(get_mock_io_output(computer))
    /\ last_output.tag = "Ok" => computer.mock_io.some
    /\ (last_output.tag = "Err" /\ ~computer.mock_io.some) =>
          /\ last_output.text = <<>>
          /\ emitted = <<>>

\* a program run on the console, then drained: Err
C17_Witness ==
    /\ last_output.tag = "Err" /\ ~computer.mock_io.some
    /\ status = "Done" /\ stdout # <<>>

\* a drain of a stream nothing was written to: Ok and the empty text
C17_WitnessEmptyOk ==
    /\ last_output.tag = "Ok" /\ last_output.text = <<>>
    /\ emitted = <<>> /\ status = "Done"

----------------------------------------------------------------------------
(* Clones: the callers of days 07 and 09 clone a Computer and work on the  *)
(* copies.  The Computers live in heap and the caller holds bindings to    *)
(* them; a call through a binding changes the Computer it refers to.       *)

MaxBindings == 2
MaxCalls == 3

\* the iterations after which a compute() call counts as not returning
MaxCloneSteps == 20

\* the program that reads two values and prints their sum
ClonePrograms == { Prog(<<3, 11, 3, 12, 1, 11, 12, 13, 4, 13, 99>>) }

CloneTexts == { <<"5">> }

\* #[derive(Clone)]: a new Computer, each field the clone of the field
Computer_clone(c) ==
    [data |-> c.data, index |-> c.index, relative_base |-> c.relative_base,
     mock_io |-> [some |-> c.mock_io.some, reader |-> c.mock_io.reader,
                  writer |-> c.mock_io.writer]]

\* mutant: the copy is the Computer itself, shared
Cloned_Shared(objs, h) == [heap |-> objs, ref |-> h]

\* computer.clone() of the Computer at h: the heap after it, and the place
\* of the copy
Cloned(objs, h) ==
    [heap |-> Append(objs, Computer_clone(objs[h])), ref |-> Len(objs) + 1]

\* the Computer after a call of its caller
Call(c, call) ==
    CASE call.kind = "compute" -> compute(c, MaxCloneSteps).c
      [] call.kind = "set_mock_io_input" -> set_mock_io_input(c, call.text)
      [] call.kind = "get_mock_io_output" -> get_mock_io_output(c).c
      [] call.kind = "data" -> [c EXCEPT !.data[call.at + 1] = call.value]

RECURSIVE Replay(_, _)
Replay(c, log) ==
    IF log = <<>> THEN c ELSE Replay(Call(c, Head(log)), Tail(log))

Binding(ref, c) == [ref |-> ref, from |-> c, log |-> <<>>, done |-> 0]

RECURSIVE CallsMade(_)
CallsMade(bs) ==
    IF bs = <<>> THEN 0
    ELSE Head(bs).done + Len(Head(bs).log) + CallsMade(Tail(bs))

\* the Computer the caller clones: as made, after a text was given to it,
\* or after it was run on the text
Prepared(c, text) ==
    { c, set_mock_io_input(c, text),
      compute(set_mock_io_input(c, text), MaxCloneSteps).c }

InitClones ==
    /\ prog \in ClonePrograms
    /\ computer \in Prepared(from_data(prog), <<"-", "1", NL, "6">>)
    /\ pc = "idle"
    /\ op = ""
    /\ status = "None"
    /\ error = ""
    /\ stdout = <<>>
    /\ last_output = NoOutput
    /\ prev = NoPrev
    /\ pushed = <<>>
    /\ emitted = <<>>
    /\ streamed = TRUE
    /\ steps = 0
    /\ heap = <<Computer_clone(computer)>>
    /\ computers = <<Binding(1, computer)>>
    /\ source = <<>>
    /\ amps = NoAmplifiers

OneComputer ==
    UNCHANGED <<computer, pc, op, status, error, stdout, last_output, prog,
                prev, pushed, emitted, streamed, steps, source, amps>>

\* the binding k and the new one both begin at the Computer as it is now
ClonedAs(k, r) ==
    /\ heap' = r.heap
    /\ computers' =
          Append([computers EXCEPT
                     ![k] = [@ EXCEPT !.from = heap[computers[k].ref],
                                      !.log = <<>>,
                                      !.done = @ + Len(computers[k].log)]],
                 Binding(r.ref, heap[computers[k].ref]))

\* computers.push(computer.clone())
CloneComputer ==
    /\ Len(computers) < MaxBindings
    /\ \E k \in DOMAIN computers : ClonedAs(k, Cloned(heap, computers[k].ref))
    /\ OneComputer

\* the call made through the binding k gave the Computer c
Called(k, call, c) ==
    /\ CallsMade(computers) < MaxCalls
    /\ heap' = [heap EXCEPT ![computers[k].ref] = c]
    /\ computers' = [computers EXCEPT ![k].log = Append(@, call)]
    /\ OneComputer

Returned(k, call, out) ==
    /\ out.ret \in {"Done", "StarvingForMockInput", "Err"}
    /\ Called(k, call, out.c)

CloneCompute ==
    \E k \in DOMAIN computers :
       Returned(k, [kind |-> "compute"],
                compute(heap[computers[k].ref], MaxCloneSteps))

CloneSetMockIoInput ==
    \E k \in DOMAIN computers, text \in CloneTexts :
       Called(k, [kind |-> "set_mock_io_input", text |-> text],
              set_mock_io_input(heap[computers[k].ref], text))

CloneGetMockIoOutput ==
    \E k \in DOMAIN computers :
       Called(k, [kind |-> "get_mock_io_output"],
              get_mock_io_output(heap[computers[k].ref]).c)

\* computer.data[0] = 2
CloneWriteData ==
    \E k \in DOMAIN computers :
       Called(k, [kind |-> "data", at |-> 0, value |-> I(2)],
              [heap[computers[k].ref] EXCEPT !.data[1] = I(2)])

NextClones ==
    \/ CloneComputer
    \/ CloneCompute
    \/ CloneSetMockIoInput
    \/ CloneGetMockIoOutput
    \/ CloneWriteData

SpecClones == InitClones /\ [][NextClones]_vars

\* the Computer of a binding
At(k) == heap[computers[k].ref]

\* C18: a Computer is what the calls made through its own binding since the
\* last clone() make of the Computer it was then, whatever was done to the
\* other copy (memory, instruction pointer, relative base, queued input and
\* buffered output); two copies of one Computer given the same calls are
\* equal.
C18_ClonesAreIndependent ==
    /\ \A k \in DOMAIN computers :
          At(k) = Replay(computers[k].from, computers[k].log)
    /\ \A j, k \in DOMAIN computers :
          (computers[j].from = computers[k].from
              /\ computers[j].log = computers[k].log) => At(j) = At(k)

\* a copy taken of a Computer with queued input and buffered output at a
\* moved instruction pointer keeps them while the other copy is drained
C18_Witness ==
    /\ Len(computers) = 2
    /\ computers[2].log = <<>>
    /\ computers[1].log # <<>>
    /\ At(2).index # 0
    /\ At(2).mock_io.writer # <<>>
    /\ At(2).mock_io.reader # <<>>
    /\ At(1).mock_io.writer = <<>>

\* the memory and the instruction pointer of a copy stay while the other
\* copy is written to and run
C18_WitnessMemory ==
    /\ Len(computers) = 2
    /\ computers[1].log = <<>>
    /\ Len(computers[2].log) >= 2
    /\ At(1).data # At(2).data
    /\ At(1).index # At(2).index

\* two copies given the same calls
C18_WitnessSame ==
    /\ Len(computers) = 2
    /\ computers[1].from = computers[2].from
    /\ computers[1].log = computers[2].log
    /\ computers[1].log # <<>>
    /\ At(1).index # computers[1].from.index

----------------------------------------------------------------------------
(* The relative base.                                                      *)

\* the last iteration was an AdjustRelativeBase that read its parameter
Adjusting ==
    /\ prev.op = "AdjustRelativeBase"
    /\ IsSmall(read_cell(prev.c, prev.c.index))
    /\ ~BadModeDigit
    /\ ~NegAddr(1)

\* the relative base an iteration that began with base leaves, v being the
\* value of its first parameter
BaseAfter(base, v) ==
    IF Adjusting /\ InIsize(Plus(base, v)) THEN Plus(base, v) ELSE base

\* C19: the relative base is 0 until an iteration has run, and since the
\* last iteration it is the base that iteration began with, plus the value
\* of the parameter when that iteration was an AdjustRelativeBase; every
\* other instruction, a starved Input, an Err, set_mock_io_input and
\* get_mock_io_output leave it as it was.
C19_RelativeBase ==
    /\ ~prev.valid => computer.relative_base = Zero
    /\ (prev.valid /\ IsSmall(read_cell(prev.c, prev.c.index))) =>
          computer.relative_base =
             BaseAfter(prev.c.relative_base, ParamValue(1))

\* an AdjustRelativeBase in relative mode has moved a base that was not 0
C19_Witness ==
    /\ Adjusting /\ status = "Done"
    /\ ModeDigit(1) = 2
    /\ prev.c.relative_base # Zero
    /\ ParamValue(1) # Zero
    /\ computer.relative_base = Plus(prev.c.relative_base, ParamValue(1))

\* the base stays through a starved Input and a set_mock_io_input after it
C19_WitnessStays ==
    /\ prev.valid /\ prev.op = "Input" /\ status = "StarvingForMockInput"
    /\ pushed # <<>> /\ pushed[Len(pushed)].after = "StarvingForMockInput"
    /\ computer.mock_io.reader # <<>>

----------------------------------------------------------------------------
(* Parsing: Computer::from_str on texts of a few tokens.                   *)

MaxTokens == 3

\* integers (signed, with leading zeros, the least of isize), and tokens
\* that are none: empty, a letter, a blank before or after the digits, the
\* value above the greatest of isize
Tokens ==
    { <<"5">>, <<"-", "1">>, <<"+", "3">>, <<"0", "7">>,
      <<>>, <<"x">>, <<" ", "7">>, <<"7", " ">>,
      <<"9", "2", "2", "3", "3", "7", "2", "0", "3", "6", "8", "5", "4", "7",
        "7", "5", "8", "0", "8">>,
      <<"-", "9", "2", "2", "3", "3", "7", "2", "0", "3", "6", "8", "5", "4",
        "7", "7", "5", "8", "0", "8">> }

\* the tokens of a text: one more than its commas and line breaks
RECURSIVE TokenCount(_)
TokenCount(t) ==
    IF t = <<>> THEN 1
    ELSE TokenCount(Tail(t)) + (IF t[1] \in {",", NL} THEN 1 ELSE 0)

Parsed(t) ==
    /\ source' = t
    /\ computer' = from_str(t)
    /\ prog' = computer'.data

InitFromStr ==
    /\ source \in Tokens
    /\ amps = NoAmplifiers
    /\ computer = from_str(source)
    /\ prog = computer.data
    /\ pc = "idle"
    /\ op = ""
    /\ status = "None"
    /\ error = ""
    /\ stdout = <<>>
    /\ last_output = NoOutput
    /\ prev = NoPrev
    /\ pushed = <<>>
    /\ emitted = <<>>
    /\ streamed = TRUE
    /\ steps = 0
    /\ heap = <<>>
    /\ computers = <<>>

\* Computer::from_str of the text with one more token after a comma or a
\* line break
FromStr ==
    /\ TokenCount(source) < MaxTokens
    /\ \E sep \in {",", NL}, tok \in Tokens : Parsed(source \o <<sep>> \o tok)
    /\ UNCHANGED <<pc, op, status, error, stdout, last_output, prev, pushed,
                   emitted, streamed, steps, heap, computers, amps>>

NextFromStr == FromStr

SpecFromStr == InitFromStr /\ [][NextFromStr]_vars

\* the places before the tokens of source: 0 and the places of the commas
\* and line breaks
Cuts == {0} \cup {i \in 1..Len(source) : source[i] \in {",", NL}}

\* the token after the cut a: up to the next comma or line break
TokenAfter(a) ==
    SubSeq(source, a + 1,
           CHOOSE e \in a..Len(source) :
              /\ \A i \in (a + 1)..e : source[i] \notin {",", NL}
              /\ e = Len(source) \/ source[e + 1] \in {",", NL})

Unsigned(t) == IF t # <<>> /\ t[1] \in {"+", "-"} THEN Tail(t) ELSE t

RECURSIVE NoLeadingZeros(_)
NoLeadingZeros(ds) ==
    IF Len(ds) > 1 /\ ds[1] = "0" THEN NoLeadingZeros(Tail(ds)) ELSE ds

\* ds is at most the digits of lim, both of one length
RECURSIVE AtMost(_, _)
AtMost(ds, lim) ==
    \/ ds = <<>>
    \/ DigitVal(ds[1]) < DigitVal(lim[1])
    \/ ds[1] = lim[1] /\ AtMost(Tail(ds), Tail(lim))

IsizeMaxDigits ==
    <<"9", "2", "2", "3", "3", "7", "2", "0", "3", "6", "8", "5", "4", "7",
      "7", "5", "8", "0", "7">>

IsizeMinDigits ==
    <<"9", "2", "2", "3", "3", "7", "2", "0", "3", "6", "8", "5", "4", "7",
      "7", "5", "8", "0", "8">>

InRange(neg, ds) ==
    \/ Len(ds) < Len(IsizeMaxDigits)
    \/ /\ Len(ds) = Len(IsizeMaxDigits)
       /\ AtMost(ds, IF neg THEN IsizeMinDigits ELSE IsizeMaxDigits)

\* t is a signed decimal integer of isize
IsInteger(t) ==
    /\ Unsigned(t) # <<>>
    /\ \A i \in 1..Len(Unsigned(t)) : IsDigit(Unsigned(t)[i])
    /\ InRange(t[1] = "-", NoLeadingZeros(Unsigned(t)))

\* the decimal text of the integer t: no '+', no leading zeros, no "-0"
Canonical(neg, ds) == IF neg /\ ds # <<"0">> THEN <<"-">> \o ds ELSE ds

IntegerCuts == {a \in Cuts : IsInteger(TokenAfter(a))}

\* the j-th of the cuts
NthCut(cuts, j) ==
    CHOOSE a \in cuts : Cardinality({b \in cuts : b < a}) = j - 1

\* v is the integer the token t writes
KeptAs(v, t) ==
    to_string(v) = Canonical(t[1] = "-", NoLeadingZeros(Unsigned(t)))

\* data is the integers of the tokens after cuts, in their order
KeptInOrder(data, cuts) ==
    /\ Len(data) = Cardinality(cuts)
    /\ \A j \in 1..Len(data) : KeptAs(data[j], TokenAfter(NthCut(cuts, j)))

\* C20: Computer::from_str gives a Computer for every text: its memory is
\* the integers among the tokens between commas and line breaks, in their
\* order, every other token being dropped; the instruction pointer and the
\* relative base are 0 and no stream is attached.
C20_FromStrKeepsIntegers ==
    /\ computer = from_str(source)
    /\ computer.index = 0
    /\ computer.relative_base = Zero
    /\ ~computer.mock_io.some
    /\ KeptInOrder(computer.data, IntegerCuts)

\* a text with line break and comma, integers kept around a dropped token
C20_Witness ==
    /\ Len(computer.data) = 2
    /\ Cardinality(Cuts) = 3
    /\ \E i \in 1..Len(source) : source[i] = NL
    /\ \E i \in 1..Len(source) : source[i] = ","
    /\ ~IsInteger(TokenAfter(CHOOSE a \in Cuts : a \notin IntegerCuts))
    /\ computer.data[1] = I(0 - 1)
    /\ computer.data[2] = I(7)

----------------------------------------------------------------------------
(* Parameters, jumps, comparisons.                                         *)

\* the modes of the instruction of the last iteration can be decoded
PlainModes ==
    /\ IsSmall(read_cell(prev.c, prev.c.index))
    /\ ~BadModeDigit

\* the instruction cell of the last iteration has no digit for the modes
\* of parameters 2 and 3
TwoModesAbsent ==
    /\ ~read_cell(prev.c, prev.c.index).neg
    /\ ToInt(read_cell(prev.c, prev.c.index)) < 1000

\* C23: an Output prints the value of its parameter: the cell at p in
\* position mode, p in immediate mode, the cell at relative_base + p in
\* relative mode, p being the cell after the instruction; an Input stores
\* its value at p in position mode and at relative_base + p in relative
\* mode; an Add whose instruction cell has no digits for parameters 2 and 3
\* reads the second operand and stores the sum in position mode.
C23_ParameterResolution ==
    /\ (LastStep /\ prev.op = "Add" /\ PlainModes /\ TwoModesAbsent
           /\ ~NegAddr(1) /\ ~ParamCell(2).neg /\ ~ParamCell(3).neg
           /\ status # "Overflow" /\ IsSmall(ParamCell(3)))
          => computer.data[ToInt(ParamCell(3)) + 1] =
                Plus(ParamValue(1), CellAt(ParamCell(2)))
    /\ (LastStep /\ prev.op = "Output" /\ PlainModes /\ ~NegAddr(1))
          => Printed = to_string(ParamValue(1)) \o <<NL>>
    /\ (LastStep /\ prev.op = "Input" /\ PlainModes /\ ~NegAddr(1)
           /\ user_input(prev.c, prev.line).tag = "Ok"
           /\ ModeDigit(1) # 1 /\ IsSmall(ParamTarget(1)))
          => computer.data[ToInt(ParamTarget(1)) + 1] =
                user_input(prev.c, prev.line).val

\* an Output in relative mode with a base that is not 0
C23_Witness ==
    /\ LastStep /\ prev.op = "Output" /\ PlainModes
    /\ ModeDigit(1) = 2
    /\ prev.c.relative_base # Zero
    /\ Printed \notin {<<>>, <<"0", NL>>}

\* an Add whose instruction cell is 1: no digits for parameters 2 and 3
C23_WitnessAbsent ==
    /\ LastStep /\ prev.op = "Add" /\ status = "Done"
    /\ read_cell(prev.c, prev.c.index) = I(1)
    /\ ParamCell(2) # CellAt(ParamCell(2))
    /\ computer.data # prev.c.data

\* an Input in relative mode that stored its value
C23_WitnessWrite ==
    /\ LastStep /\ prev.op = "Input" /\ PlainModes
    /\ ModeDigit(1) = 2 /\ prev.c.relative_base # Zero
    /\ user_input(prev.c, prev.line).tag = "Ok"
    /\ computer.data # prev.c.data

\* the last iteration was a jump that read its first parameter
Jumping ==
    /\ LastStep /\ prev.op \in {"JumpIfTrue", "JumpIfFalse"}
    /\ PlainModes /\ ~NegAddr(1)

\* the condition of the jump of the last iteration is met
ConditionMet == (ParamValue(1) # Zero) = (prev.op = "JumpIfTrue")

\* the target of the jump of the last iteration is an index
TargetIsIndex ==
    /\ ~NegAddr(2)
    /\ ~ParamValue(2).neg /\ IsSmall(ParamValue(2))

\* C24: a JumpIfTrue whose first parameter is not 0, and a JumpIfFalse
\* whose first parameter is 0, set the instruction pointer to the value of
\* the second parameter; otherwise the instruction pointer advances by 3,
\* whatever the second parameter is; memory and relative base stay.
C24_Jumps ==
    /\ (Jumping /\ ConditionMet /\ TargetIsIndex)
          => computer.index = ToInt(ParamValue(2))
    /\ (Jumping /\ ~ConditionMet)
          => computer.index = prev.c.index + 3
    /\ (LastStep /\ prev.op \in {"JumpIfTrue", "JumpIfFalse"})
          => /\ computer.data = prev.c.data
             /\ computer.relative_base = prev.c.relative_base

\* a JumpIfFalse that was taken, to another place than the next instruction
C24_Witness ==
    /\ Jumping /\ ConditionMet /\ TargetIsIndex
    /\ prev.op = "JumpIfFalse"
    /\ computer.index # prev.c.index + 3

\* a JumpIfTrue that was taken
C24_WitnessTrue ==
    /\ Jumping /\ ConditionMet /\ TargetIsIndex
    /\ prev.op = "JumpIfTrue"
    /\ computer.index # prev.c.index + 3

\* a jump that was not taken, its second parameter a negative address
C24_WitnessUnused ==
    /\ Jumping /\ ~ConditionMet /\ NegAddr(2)
    /\ computer.index = prev.c.index + 3

\* the last iteration was a LessThan or an Equals that read its operands
\* and had an index to store at
Comparing ==
    /\ LastStep /\ prev.op \in {"LessThan", "Equals"}
    /\ PlainModes /\ ~NegAddr(1) /\ ~NegAddr(2) /\ ~NegAddr(3)
    /\ ModeDigit(3) # 1 /\ IsSmall(ParamTarget(3))

\* x < y as signed integers
SignedLess(x, y) ==
    IF IsSmall(x) /\ IsSmall(y) THEN ToInt(x) < ToInt(y) ELSE Less(x, y)

\* what the comparison of the last iteration gives
Compared(x, y) ==
    IF prev.op = "LessThan"
    THEN (IF SignedLess(x, y) THEN I(1) ELSE I(0))
    ELSE (IF x = y THEN I(1) ELSE I(0))

\* the cells of c and d are the same except the one at index target
SameBut(c, d, target) ==
    \A i \in 0..Max(Len(c.data), Len(d.data)) :
       i # target => read_cell(c, i) = read_cell(d, i)

\* C25: a LessThan stores 1 at the address of its third parameter when the
\* first value is less than the second as signed integers, and 0 when it
\* is not; an Equals stores 1 when the two values are equal and 0 when
\* they are not; every other cell reads as before.
C25_Comparisons ==
    Comparing =>
       /\ read_cell(computer, ToInt(ParamTarget(3))) =
             Compared(ParamValue(1), ParamValue(2))
       /\ SameBut(computer, prev.c, ToInt(ParamTarget(3)))

\* a LessThan of a negative and a positive value has stored 1 over a cell
\* that was not 1
C25_Witness ==
    /\ Comparing /\ prev.op = "LessThan"
    /\ ParamValue(1).neg /\ ~ParamValue(2).neg
    /\ read_cell(computer, ToInt(ParamTarget(3))) = I(1)
    /\ read_cell(prev.c, ToInt(ParamTarget(3))) # I(1)

\* an Equals of a value and its opposite has stored 0
C25_WitnessEquals ==
    /\ Comparing /\ prev.op = "Equals"
    /\ ParamValue(1) # ParamValue(2)
    /\ ParamValue(1).mag = ParamValue(2).mag
    /\ read_cell(computer, ToInt(ParamTarget(3))) = Zero

----------------------------------------------------------------------------
(* What compute() returns.                                                 *)

\* the decimal text of a cell that is not negative ends with the digits
EndsWith(cell, digits) ==
    /\ ~cell.neg
    /\ Len(to_string(cell)) >= Len(digits)
    /\ SubSeq(to_string(cell), Len(to_string(cell)) - Len(digits) + 1,
              Len(to_string(cell))) = digits

\* the cell is 3, or ends with the digits 03
IsInputCell(cell) == cell = I(3) \/ EndsWith(cell, <<"0", "3">>)

\* the cell at the instruction pointer
AtPointer == read_cell(computer, computer.index)

\* C26: when compute() has returned Ok(Done) the cell at the instruction
\* pointer is a Halt (99 modulo 100), when it has returned
\* Ok(StarvingForMockInput) that cell is an Input (3 modulo 100); what it
\* returns is one of these two or an Err, when it returns.
C26_StatusMatchesPosition ==
    /\ (pc = "idle" /\ status = "Done") => EndsWith(AtPointer, <<"9", "9">>)
    /\ (pc = "idle" /\ status = "StarvingForMockInput") =>
          IsInputCell(AtPointer)
    /\ status \in {"None", "Done", "StarvingForMockInput", "Err", "Panic",
                   "Huge", "Overflow"}
    /\ (pc = "idle" /\ status \in {"Done", "StarvingForMockInput"}) =>
          current_operation(computer).tag = "Ok"

\* Done at a Halt that is not the first cell, after a starved Input earlier
C26_Witness ==
    /\ pc = "idle" /\ status = "Done"
    /\ computer.index > 0
    /\ \E i \in 1..Len(pushed) : pushed[i].after = "StarvingForMockInput"

\* starved at an Input that is not the first cell
C26_WitnessStarving ==
    /\ pc = "idle" /\ status = "StarvingForMockInput"
    /\ computer.index > 0

\* the step is none of set_mock_io_input, get_mock_io_output and the
\* assignment of a stream
StreamKept ==
    /\ pushed' = pushed
    /\ last_output' = last_output
    /\ computer'.mock_io.some = computer.mock_io.some

\* C27: once compute() has returned Done, whatever is called next (compute()
\* again, with or without input pushed in between) leaves the Computer
\* Done, and memory, instruction pointer and relative base as they are; the
\* queued input and the buffered output change only by set_mock_io_input
\* and get_mock_io_output, not by compute().
C27_DoneIsAbsorbing ==
    [][(pc = "idle" /\ status = "Done") =>
          /\ pc' = "idle" /\ status' = "Done"
          /\ computer'.data = computer.data
          /\ computer'.index = computer.index
          /\ computer'.relative_base = computer.relative_base
          /\ StreamKept => computer'.mock_io = computer.mock_io]_vars

\* Done, input pushed after that, and compute() called again
C27_Witness ==
    /\ pc = "idle" /\ status = "Done"
    /\ prev.valid /\ steps = 0
    /\ pushed # <<>> /\ pushed[Len(pushed)].after = "Done"
    /\ computer.mock_io.reader # <<>>

\* the messages of the errors of an operand: a mode digit, a negative
\* address, a negative jump target
OperandErrors ==
    { "Invalid parameter mode in op code",
      "Attempted to use negative integer as index",
      "Instruction pointer may only be set to an unsigned value" }

\* compute() has returned the Err of an operand of the last iteration
OperandFailed ==
    /\ LastStep /\ pc = "idle" /\ status = "Err"
    /\ error \in OperandErrors

\* C28: when compute() returns the Err of an operand (an invalid mode
\* digit, a negative address to read or to write, a negative jump target),
\* memory, instruction pointer and relative base are the ones from before
\* that instruction, with what the earlier instructions did to them.
C28_NoPartialEffect ==
    OperandFailed =>
       /\ computer.data = prev.c.data
       /\ computer.index = prev.c.index
       /\ computer.relative_base = prev.c.relative_base

\* a write to a negative address failed after an AdjustRelativeBase moved
\* the base and the pointer
C28_Witness ==
    /\ OperandFailed /\ Writes(prev.op)
    /\ error = "Attempted to use negative integer as index"
    /\ ~NegAddr(1) /\ (prev.op = "Input" \/ ~NegAddr(2))
    /\ computer.relative_base # Zero
    /\ computer.index > 0

\* a jump to a negative target failed
C28_WitnessJump ==
    /\ OperandFailed
    /\ error = "Instruction pointer may only be set to an unsigned value"

\* an invalid mode digit
C28_WitnessMode ==
    /\ OperandFailed /\ error = "Invalid parameter mode in op code"

\* the lines that hold no integer: a blank one, and a letter
BadLines == { <<NL>>, <<"x", NL>> }

\* the last iteration was an Input with a stream whose queue began with line
InputFound(line) ==
    /\ LastStep /\ prev.op = "Input" /\ prev.c.mock_io.some
    /\ IsPrefix(line, prev.c.mock_io.reader)

\* the queue of the last iteration, without its first n bytes
Behind(n) ==
    SubSeq(prev.c.mock_io.reader, n + 1, Len(prev.c.mock_io.reader))

\* C29: with a stream attached, an Input that finds a blank line or a line
\* that is no integer at the head of the queue takes that line away and
\* makes compute() return Ok(StarvingForMockInput), not an Err; it writes
\* no memory and leaves the instruction pointer, and the lines behind it
\* stay queued, at the head of what is pushed later.
C29_BadLineStarves ==
    \A line \in BadLines :
       InputFound(line) =>
          /\ pc = "idle" /\ status = "StarvingForMockInput"
          /\ computer.data = prev.c.data
          /\ computer.index = prev.c.index
          /\ IsPrefix(Behind(Len(line)), computer.mock_io.reader)
          /\ pushed[Len(pushed)].after # "StarvingForMockInput"
                => computer.mock_io.reader = Behind(Len(line))

\* a blank line was taken and a line behind it stays queued
C29_Witness ==
    /\ InputFound(<<NL>>)
    /\ status = "StarvingForMockInput"
    /\ Behind(1) # <<>>
    /\ computer.mock_io.reader = Behind(1)

\* "" and "5" pushed before the first compute(): the echo loop starved on
\* the blank line, and printed 5 when it was called again
C29_WitnessLater ==
    /\ Len(pushed) = 2
    /\ pushed[1].text = <<>> /\ pushed[2].text = <<"5">>
    /\ pushed[2].after = "None"
    /\ emitted = <<"5", NL>>

\* programs that never reach a Halt, never execute an Input and never fail
\* to decode: a jump to itself, and a loop that moves the relative base
Endless == { Prog(<<1105, 1, 0>>), Prog(<<109, 1, 1105, 1, 0>>) }

\* C30: compute() goes on while the cell at the instruction pointer is an
\* operation other than Halt and the last iteration neither starved nor
\* failed; so compute() of a program that reaches no Halt, executes no
\* Input and never fails to decode does not return: it has returned
\* nothing, Done least of all, and once called it is in its loop for good.
C30_EndlessNeverReturns ==
    /\ (LastStep /\ pc = "idle") =>
          \/ status = "Done" /\ EndsWith(AtPointer, <<"9", "9">>)
          \/ status = "StarvingForMockInput" /\ prev.op = "Input"
          \/ status \in {"Err", "Panic", "Huge", "Overflow"}
    /\ (LastStep /\ pc = "loop") =>
          /\ current_operation(computer).tag = "Ok"
          /\ current_operation(computer).op = op
          /\ op # "End"
    /\ prog \in Endless =>
          /\ status = "None"
          /\ pc = "idle" => (steps = 0 /\ ~prev.valid)
          /\ computer.data = prog

\* the jump to itself, still running after fifty iterations
C30_Witness ==
    /\ prog = Prog(<<1105, 1, 0>>)
    /\ pc = "loop" /\ steps >= 50
    /\ computer.index = 0

----------------------------------------------------------------------------
(* Day 07: five amplifiers, clones of one Computer, each fed a phase and    *)
(* then the signal of the one before it; the greatest last signal over     *)
(* the permutations of the phases.                                         *)

AmplifierCount == 5

\* the test cases of day 07: amplify_once (phases 0..4) and feedback_loop
\* (phases 5..9, amp the phases of test_feedback_loop_amplify_chain)
Day07Tests ==
    { [data |-> <<3, 15, 3, 16, 1002, 16, 10, 16, 1, 16, 15, 15, 4, 15, 99,
                  0, 0>>,
       feedback |-> FALSE, amp |-> <<>>, output |-> 43210],
      [data |-> <<3, 23, 3, 24, 1002, 24, 10, 24, 1002, 23, -1, 23, 101, 5,
                  23, 23, 1, 24, 23, 23, 4, 23, 99, 0, 0>>,
       feedback |-> FALSE, amp |-> <<>>, output |-> 54321],
      [data |-> <<3, 31, 3, 32, 1002, 32, 10, 32, 1001, 31, -2, 31, 1007, 31,
                  0, 33, 1002, 33, 7, 33, 1, 33, 31, 31, 1, 32, 31, 31, 4,
                  31, 99, 0, 0, 0>>,
       feedback |-> FALSE, amp |-> <<>>, output |-> 65210],
      [data |-> <<3, 26, 1001, 26, -4, 26, 3, 27, 1002, 27, 2, 27, 1, 27, 26,
                  27, 4, 27, 1001, 28, -1, 28, 1005, 28, 6, 99, 0, 0, 5>>,
       feedback |-> TRUE, amp |-> <<9, 8, 7, 6, 5>>, output |-> 139629729],
      [data |-> <<3, 52, 1001, 52, -5, 52, 3, 53, 1, 52, 56, 54, 1007, 54, 5,
                  55, 1005, 55, 26, 1001, 54, -5, 54, 1105, 1, 12, 1, 53,
                  54, 53, 1008, 54, 0, 55, 1001, 55, 1, 55, 2, 53, 55, 53, 4,
                  53, 1001, 56, -1, 56, 1005, 56, 6, 99, 0, 0, 0, 0, 10>>,
       feedback |-> TRUE, amp |-> <<9, 7, 8, 5, 6>>, output |-> 18216] }

RECURSIVE Factorial(_)
Factorial(n) == IF n = 0 THEN 1 ELSE n * Factorial(n - 1)

Without(items, i) ==
    SubSeq(items, 1, i - 1) \o SubSeq(items, i + 1, Len(items))

\* the n-th permutation (from 0) in the order of itertools' permutations
RECURSIVE NthPermutation(_, _)
NthPermutation(items, n) ==
    IF items = <<>> THEN <<>>
    ELSE <<items[(n \div Factorial(Len(items) - 1)) + 1]>>
         \o NthPermutation(
                Without(items, (n \div Factorial(Len(items) - 1)) + 1),
                n % Factorial(Len(items) - 1))

\* (0..=4) and (5..=9)
PhaseRange(feedback) ==
    [i \in 1..AmplifierCount |-> IF feedback THEN i + 4 ELSE i - 1]

\* set_mock_io_input(text), then compute()
Fed(c, text) == compute(set_mock_io_input(c, text), MaxSteps)

\* the clone given format!("{}\n", input) and run
PhaseFed(c, phase) == Fed(Computer_clone(c), to_string(phase) \o <<NL>>)

\* mutant: every amplifier is given the signal 0
SignalFed_Zero(c, signal) == Fed(c, to_string(Zero))

\* the amplifier given format!("{}", signal) and run
SignalFed(c, signal) == Fed(c, to_string(signal))

\* mutant: the loop ends after the first round
LoopEnds_FirstRound(feedback, res_status) == TRUE

\* amplify_once takes one round; feedback_loop goes on
\* while res.status != ComputationStatus::Done
LoopEnds(feedback, res_status) == ~feedback \/ res_status = "Done"

\* Iterator::max over the signals so far
MaxWith(best, signal) ==
    IF best = <<>> \/ Less(best[1], signal) THEN <<signal>> ELSE best

InitAmplifiers ==
    /\ \E test \in Day07Tests :
          /\ prog = Prog(test.data)
          /\ amps = [pc |-> "new", test |-> test, n |-> 0, best |-> <<>>,
                     phases |-> <<>>, computers |-> <<>>, k |-> 0,
                     signal |-> Zero, status |-> "StarvingForMockInput",
                     rounds |-> 0]
    /\ computer = from_data(prog)
    /\ pc = "idle"
    /\ op = ""
    /\ status = "None"
    /\ error = ""
    /\ stdout = <<>>
    /\ last_output = NoOutput
    /\ prev = NoPrev
    /\ pushed = <<>>
    /\ emitted = <<>>
    /\ streamed = TRUE
    /\ steps = 0
    /\ heap = <<>>
    /\ computers = <<>>
    /\ source = <<>>

AmplifiersOnly ==
    UNCHANGED <<computer, pc, op, status, error, stdout, last_output, prog,
                prev, pushed, emitted, streamed, steps, heap, computers,
                source>>

\* compute().unwrap() and assert!(status != ComputationStatus::Done) of
\* every amplifier, then the locals of amplify
Made(phases, outs) ==
    amps' = [amps EXCEPT
               !.pc = IF \A i \in 1..AmplifierCount :
                            outs[i].ret = "StarvingForMockInput"
                      THEN "amplify" ELSE "panic",
               !.phases = phases,
               !.computers = [i \in 1..AmplifierCount |-> outs[i].c],
               !.k = 1,
               !.signal = Zero,
               !.status = "StarvingForMockInput",
               !.rounds = 0]

MadeWith(phases) ==
    Made(phases,
         [i \in 1..AmplifierCount |-> PhaseFed(computer, I(phases[i]))])

\* Amplifiers::new for the next permutation of the phases
AmplifiersNew ==
    /\ amps.pc = "new"
    /\ MadeWith(NthPermutation(PhaseRange(amps.test.feedback), amps.n))
    /\ AmplifiersOnly

\* signal = ...trim().parse().unwrap()
Forwarded(k, ret, c, parsed) ==
    amps' = IF ret \in {"Done", "StarvingForMockInput"} /\ parsed.ok
            THEN [amps EXCEPT
                    !.computers[k] = c,
                    !.signal = parsed.val,
                    !.status = ret,
                    !.k = k + 1,
                    !.pc = IF k = AmplifierCount THEN "return"
                           ELSE "amplify"]
            ELSE [amps EXCEPT !.pc = "panic"]

\* computer.get_mock_io_output()?
Taken(k, ret, drained) ==
    Forwarded(k, IF drained.tag = "Ok" THEN ret ELSE "Err", drained.c,
              parse(trim(drained.text)))

\* status = computer.compute()?
Run(k, out) == Taken(k, out.ret, get_mock_io_output(out.c))

\* one amplifier of the for loop of Amplifiers::amplify
Amplify ==
    /\ amps.pc = "amplify"
    /\ Run(amps.k, SignalFed(amps.computers[amps.k], amps.signal))
    /\ AmplifiersOnly

\* amplify has returned: the chain ends with its signal, or feedback_loop
\* calls it again with that signal
AmplifyReturned(ends) ==
    amps' = IF ends
            THEN [amps EXCEPT
                    !.best = MaxWith(@, amps.signal),
                    !.n = @ + 1,
                    !.rounds = @ + 1,
                    !.pc = IF amps.n + 1 = Factorial(AmplifierCount)
                           THEN "done" ELSE "new"]
            ELSE [amps EXCEPT !.k = 1, !.rounds = @ + 1, !.pc = "amplify"]

AmplifyChain ==
    /\ amps.pc = "return"
    /\ AmplifyReturned(LoopEnds(amps.test.feedback, amps.status))
    /\ AmplifiersOnly

NextAmplifiers ==
    \/ AmplifiersNew
    \/ Amplify
    \/ AmplifyChain

SpecAmplifiers == InitAmplifiers /\ [][NextAmplifiers]_vars

----------------------------------------------------------------------------
(* C21, C22 *)

OnceTest == amps.pc # "none" /\ ~amps.test.feedback

FeedbackTest == amps.pc # "none" /\ amps.test.feedback

\* the amplifier waits for a line: it stands on an Input instruction with
\* nothing left to read
AwaitsInput(c) ==
    /\ IsInputCell(read_cell(c, c.index))
    /\ c.mock_io.reader = <<>>

\* the chain has just been made for the permutation at hand
JustMade == amps.pc = "amplify" /\ amps.k = 1 /\ amps.rounds = 0

\* C21: in the single-pass chain every one of the five clones, fed its
\* phase, is left awaiting input; the signal 0 goes to the first and each
\* amplifier's drained output to the next; no step of it fails; and the
\* greatest signal of the fifth over the permutations of 0..4 is 43210,
\* 54321 and 65210 for the three test programs.
C21_SinglePassChain ==
    OnceTest =>
        /\ amps.pc # "panic"
        /\ JustMade =>
              /\ amps.signal = Zero
              /\ amps.phases
                     = NthPermutation(PhaseRange(FALSE), amps.n)
              /\ \A i \in 1..AmplifierCount :
                    AwaitsInput(amps.computers[i])
        /\ amps.pc = "return" =>
              /\ amps.status = "Done"
              /\ ~Less(I(amps.test.output), amps.signal)
        /\ amps.pc = "done" =>
              /\ amps.n = Factorial(AmplifierCount)
              /\ amps.best = <<I(amps.test.output)>>

C21_Witness ==
    /\ OnceTest
    /\ amps.pc = "done"
    /\ amps.best = <<I(43210)>>

C21_Witness54321 ==
    /\ OnceTest
    /\ amps.pc = "return"
    /\ amps.phases = <<0, 1, 2, 3, 4>>
    /\ amps.signal = I(54321)

C21_Witness65210 ==
    /\ OnceTest
    /\ amps.pc = "done"
    /\ amps.best = <<I(65210)>>

\* C22: in the feedback loop the round of five is repeated with the
\* fifth's signal given to the first (0 at first); the loop ends exactly
\* when the fifth's compute() returns Done, with that amplifier's last
\* output; the test programs give 139629729 for the phases 9,8,7,6,5 and
\* 18216 for 9,7,8,5,6, which are also the greatest over the permutations
\* of 5..9.
C22_FeedbackLoop ==
    FeedbackTest =>
        /\ amps.pc # "panic"
        /\ JustMade => amps.signal = Zero
        /\ amps.pc = "return" =>
              /\ amps.status = "Done"
                    <=> Operation_from_code(
                            read_cell(amps.computers[AmplifierCount],
                                      amps.computers[AmplifierCount].index)).op
                        = "End"
              /\ (amps.status = "Done" /\ amps.phases = amps.test.amp)
                    => amps.signal = I(amps.test.output)
              /\ amps.status = "Done"
                    => ~Less(I(amps.test.output), amps.signal)
        /\ (amps.pc \in {"new", "done"} /\ amps.n > 0) =>
              /\ amps.status = "Done"
              /\ amps.rounds > 1
        /\ amps.pc = "done" =>
              /\ amps.n = Factorial(AmplifierCount)
              /\ amps.best = <<I(amps.test.output)>>

C22_Witness ==
    /\ FeedbackTest
    /\ amps.pc = "return"
    /\ amps.status = "Done"
    /\ amps.phases = <<9, 8, 7, 6, 5>>
    /\ amps.signal = I(139629729)

C22_Witness18216 ==
    /\ FeedbackTest
    /\ amps.pc = "done"
    /\ amps.best = <<I(18216)>>

C22_WitnessAgain ==
    /\ FeedbackTest
    /\ amps.pc = "amplify"
    /\ amps.k = 1
    /\ amps.rounds > 0
    /\ amps.signal # Zero

====
